---- MODULE Spec2Model ----
(***************************************************************************)
(* A model of the LTTL segmentation substrate: the backing string store    *)
(* (Segmentation.data), segments, segmentations with their str_index_ptr   *)
(* map, and the Segmenter / Processor operations built on them.            *)
(*                                                                         *)
(* Conventions                                                             *)
(*   - Python's None is the value None (-1); offsets are naturals.         *)
(*   - Python lists are sequences; list position p is sequence index p+1.  *)
(*   - A Python dict is a sequence of <<key, value>> pairs in insertion    *)
(*     order (the iteration order of dict in Python 3.7+).                 *)
(*   - A character string is a sequence of one-character strings.          *)
(***************************************************************************)
EXTENDS Integers, Sequences, FiniteSets, TLC

VARIABLES
    data,       \* Segmentation.data, the process-wide string store
    prevData,   \* the store as it was before the last operation
    segA,       \* a segmentation object (contexts, first input)
    segB,       \* a segmentation object (units, second input)
    op,         \* name of the last operation performed
    args,       \* the arguments of the last operation (a record)
    result,     \* the value returned by the last operation
    raised      \* exception raised by the last operation ("none" if none)

vars == <<data, prevData, segA, segB, op, args, result, raised>>

----------------------------------------------------------------------------
(* Bounds *)

MaxStore == 3      \* largest number of entries the store grows to
MaxStrLen == 2     \* longest backing string registered through set_data
SegStrLen == 2     \* length of the string the segments under test refer to

None == -1
Chars == {"a", "b"}

----------------------------------------------------------------------------
(* Generic helpers *)

Range(f) == {f[i] : i \in DOMAIN f}

Min(S) == CHOOSE m \in S : \A n \in S : m <= n

SeqsUpTo(S, n) == UNION {[1..k -> S] : k \in 0..n}

\* the strings registered in the store when only set_data is exercised
Strings == SeqsUpTo({"a"}, MaxStrLen)

----------------------------------------------------------------------------
(* The string store: Segmentation.data, get_data, set_data *)

\* An entry is a string-like or an int pointer to another entry.
Str(s) == [isref |-> FALSE, ref |-> 0, str |-> s]
Ref(j) == [isref |-> TRUE, ref |-> j, str |-> <<>>]

\* get_data(index): the entry at index, dereferenced once when it is an int.
get_data(d, index) ==
    LET i == IF index < 0 THEN index + Len(d) ELSE index
        value == d[i + 1]
    IN  IF value.isref THEN d[value.ref + 1] ELSE value

\* set_data with the "Pointers can only replace pointers" test left out.
set_data_no_barrier(d, index, value_or_ref) ==
    IF value_or_ref.isref /\
       (value_or_ref.ref < 0 \/ value_or_ref.ref > Len(d) - 1)
    THEN [data |-> d, raised |-> "IndexError"]
    ELSE IF value_or_ref.isref /\ value_or_ref.ref = index
    THEN [data |-> d, raised |-> "IndexError"]
    ELSE
      LET v == IF value_or_ref.isref /\ d[value_or_ref.ref + 1].isref
               THEN Ref(d[value_or_ref.ref + 1].ref)
               ELSE value_or_ref
      IN  IF 0 <= index /\ index < Len(d)
          THEN [data |-> [d EXCEPT ![index + 1] = v], raised |-> "none"]
          ELSE [data |-> Append(d, v), raised |-> "none"]

\* set_data(index, value_or_ref): the store and the exception after the call.
set_data(d, index, value_or_ref) ==
    IF value_or_ref.isref /\
       (value_or_ref.ref < 0 \/ value_or_ref.ref > Len(d) - 1)
    THEN [data |-> d, raised |-> "IndexError"]
    ELSE IF value_or_ref.isref /\ value_or_ref.ref = index
    THEN [data |-> d, raised |-> "IndexError"]
    ELSE
      LET \* a pointer to a pointer is replaced by a pointer to its target
          v == IF value_or_ref.isref /\ d[value_or_ref.ref + 1].isref
               THEN Ref(d[value_or_ref.ref + 1].ref)
               ELSE value_or_ref
      IN  IF 0 <= index /\ index < Len(d)
          THEN IF v.isref /\ ~d[index + 1].isref
               THEN [data |-> d, raised |-> "IndexError"]
               ELSE [data |-> [d EXCEPT ![index + 1] = v], raised |-> "none"]
          ELSE [data |-> Append(d, v), raised |-> "none"]

----------------------------------------------------------------------------
(* Python idioms *)

\* x or y, for x an offset or None: 0 and None are both falsy.
PyOr(x, y) == IF x = None \/ x = 0 THEN y ELSE x

\* string[start:end] for offsets within the string (None = open end).
PySlice(str, start, end) ==
    SubSeq(str,
           (IF start = None THEN 0 ELSE start) + 1,
           IF end = None THEN Len(str) ELSE end)

\* Ordered dictionaries: sequences of <<key, value>> in insertion order.
DictKeys(d) == [i \in 1..Len(d) |-> d[i][1]]
DictValues(d) == [i \in 1..Len(d) |-> d[i][2]]
DictHas(d, k) == \E i \in 1..Len(d) : d[i][1] = k
DictGet(d, k) == d[CHOOSE i \in 1..Len(d) : d[i][1] = k][2]
DictSet(d, k, v) ==
    IF DictHas(d, k)
    THEN [i \in 1..Len(d) |-> IF d[i][1] = k THEN <<k, v>> ELSE d[i]]
    ELSE Append(d, <<k, v>>)

\* d.update(e): the pairs of e are set into d in e's order.
RECURSIVE DictUpdate(_, _)
DictUpdate(d, e) ==
    IF e = <<>> THEN d
    ELSE DictUpdate(DictSet(d, e[1][1], e[1][2]), Tail(e))

\* Annotation dictionaries are compared as wholes only: sets of <<key, value>>.
AnnKeys(a) == {p[1] : p \in a}
AnnUpdate(a, b) == {p \in a : p[1] \notin AnnKeys(b)} \cup b

----------------------------------------------------------------------------
(* Segment *)

Segment(str_index, start, end, annotations) ==
    [str_index |-> str_index, start |-> start, end |-> end,
     annotations |-> annotations]

\* stands for None where a Segment or None is expected
NoSegment == Segment(None, None, None, {})

\* the (str_index, start, end) address of a segment
Address(s) == <<s.str_index, s.start, s.end>>

\* Segment.__eq__
eq(self, other) ==
    /\ self.str_index = other.str_index
    /\ self.start = PyOr(other.start, 0)
    /\ self.end = PyOr(other.end, None)

\* Segment.get_real_str_index
get_real_str_index(d, self) ==
    IF d[self.str_index + 1].isref
    THEN d[self.str_index + 1].ref
    ELSE self.str_index

\* Segment.get_content
get_content(d, self) ==
    PySlice(get_data(d, self.str_index).str, self.start, self.end)

\* Segment.deepcopy(annotations, update); annotations = None is NoAnnotations
NoAnnotations == {<<"__None__", "__None__">>}

deepcopy(self, annotations, update) ==
    LET new_annotations ==
            IF update
            THEN IF annotations # NoAnnotations
                 THEN AnnUpdate(self.annotations, annotations)
                 ELSE self.annotations
            ELSE IF annotations = NoAnnotations THEN {} ELSE annotations
    IN  Segment(self.str_index, self.start, self.end, new_annotations)

\* contains without the test on the end offsets
contains_start_only(d, self, other_segment) ==
    IF self.str_index # other_segment.str_index THEN FALSE
    ELSE IF PyOr(self.start, 0) > PyOr(other_segment.start, 0) THEN FALSE
    ELSE TRUE

\* Segment.contains
contains(d, self, other_segment) ==
    IF self.str_index # other_segment.str_index THEN FALSE
    ELSE IF PyOr(self.start, 0) > PyOr(other_segment.start, 0) THEN FALSE
    ELSE LET string_length == Len(get_data(d, self.str_index).str)
         IN  IF PyOr(self.end, string_length)
                    < PyOr(other_segment.end, string_length)
             THEN FALSE
             ELSE TRUE

----------------------------------------------------------------------------
(* Segmentation: the segments (all in the buffer: CHUNK_SIZE is far above *)
(* the sizes explored here) and the str_index_ptr dictionary.              *)

EmptySegmentation == [segs |-> <<>>, str_index_ptr |-> <<>>, label |-> "segmented_data"]

\* Segmentation.__getitem__(key) for an integer key (a detached copy)
getitem(S, key) ==
    LET k == IF key < 0 THEN Len(S.segs) + key ELSE key
    IN  S.segs[k + 1]

\* Segmentation._get_str_index_ptr(segments, before_first_segment, offset)
RECURSIVE get_str_index_ptr_loop(_, _, _, _, _)
get_str_index_ptr_loop(segments, i, last_seen, offset, temp_ptr) ==
    IF i >= Len(segments) THEN temp_ptr
    ELSE LET s == segments[i + 1]
         IN  get_str_index_ptr_loop(
                 segments, i + 1, s, offset,
                 IF last_seen = NoSegment \/ s.str_index # last_seen.str_index
                 THEN DictSet(temp_ptr, s.str_index, i + offset)
                 ELSE temp_ptr)

_get_str_index_ptr(segments, before_first_segment, offset) ==
    get_str_index_ptr_loop(segments, 0, before_first_segment, offset, <<>>)

\* Segmentation(list of segments, label)
SegmentationFromList(segmentation, label) ==
    [segs |-> segmentation,
     str_index_ptr |-> _get_str_index_ptr(segmentation, NoSegment, 0),
     label |-> label]

\* Segmentation.extend(segments)
extend(S, segments) ==
    LET new_ptrs ==
            IF Len(S.segs) > 0
            THEN DictUpdate(
                     _get_str_index_ptr(segments, getitem(S, -1), Len(S.segs)),
                     S.str_index_ptr)
            ELSE _get_str_index_ptr(segments, NoSegment, 0)
    IN  [S EXCEPT !.str_index_ptr = new_ptrs, !.segs = S.segs \o segments]

\* append recording the position before the new segment's (off by one)
append_ptr_off_by_one(S, segment) ==
    LET ptr == IF Len(S.segs) = 0 \/
                  S.segs[Len(S.segs)].str_index # segment.str_index
               THEN DictSet(S.str_index_ptr, segment.str_index, Len(S.segs) - 1)
               ELSE S.str_index_ptr
    IN  [S EXCEPT !.str_index_ptr = ptr, !.segs = Append(S.segs, segment)]

\* Segmentation.append(segment)
append(S, segment) ==
    LET ptr == IF Len(S.segs) = 0 \/
                  getitem(S, -1).str_index # segment.str_index
               THEN DictSet(S.str_index_ptr, segment.str_index, Len(S.segs))
               ELSE S.str_index_ptr
    IN  [S EXCEPT !.str_index_ptr = ptr, !.segs = Append(S.segs, segment)]

\* Segmentation.__setitem__(index, segment): str_index_ptr is not touched
setitem(S, index, segment) ==
    LET k == IF index < 0 THEN Len(S.segs) + index ELSE index
    IN  [S EXCEPT !.segs[k + 1] = segment]

\* sorted(list of ints)
RECURSIVE SortedInts(_)
SortedInts(S) ==
    IF S = {} THEN <<>>
    ELSE LET m == Min(S) IN <<m>> \o SortedInts(S \ {m})

\* _sort: the test "is the segmentation already sorted"
RECURSIVE already_sorted(_, _, _, _)
already_sorted(S, sorted_keys, j, last) ==
    IF j > Len(sorted_keys) THEN TRUE
    ELSE LET v == DictGet(S.str_index_ptr, sorted_keys[j])
         IN  IF v < last THEN FALSE
             ELSE already_sorted(S, sorted_keys, j + 1, v)

\* _sort: copy the run of segments of str_index k that starts at position i
RECURSIVE sort_copy_run(_, _, _, _)
sort_copy_run(S, k, i, sorted_segmentation) ==
    LET segment == getitem(S, i)
    IN  IF segment.str_index = k
        THEN IF i + 1 >= Len(S.segs)
             THEN append(sorted_segmentation, segment)
             ELSE sort_copy_run(S, k, i + 1,
                                append(sorted_segmentation, segment))
        ELSE sorted_segmentation

RECURSIVE sort_copy_keys(_, _, _, _)
sort_copy_keys(S, sorted_keys, j, sorted_segmentation) ==
    IF j > Len(sorted_keys) THEN sorted_segmentation
    ELSE sort_copy_keys(
             S, sorted_keys, j + 1,
             sort_copy_run(S, sorted_keys[j],
                           DictGet(S.str_index_ptr, sorted_keys[j]),
                           sorted_segmentation))

\* Segmentation._sort: the segmentation returned and whether it is self
_sort(S) ==
    LET sorted_keys == SortedInts(Range(DictKeys(S.str_index_ptr)))
    IN  IF already_sorted(S, sorted_keys, 1, 0)
        THEN [seg |-> S, is_self |-> TRUE]
        ELSE [seg |-> sort_copy_keys(S, sorted_keys, 1,
                          [EmptySegmentation EXCEPT !.label = S.label]),
              is_self |-> FALSE]

----------------------------------------------------------------------------
(* Segmenter.concatenate.  An absent or empty annotation key (None or '')  *)
(* is the empty string.                                                    *)

\* the keys of the inputs' str_index_ptr, input by input
RECURSIVE all_keys(_)
all_keys(segmentations) ==
    IF segmentations = <<>> THEN <<>>
    ELSE DictKeys(Head(segmentations).str_index_ptr)
             \o all_keys(Tail(segmentations))

\* "ordered list of all unique str_index involved"
RECURSIVE unique_keys(_, _)
unique_keys(keys, str_indices) ==
    IF keys = <<>> THEN str_indices
    ELSE unique_keys(Tail(keys),
                     IF Head(keys) \in Range(str_indices) THEN str_indices
                     ELSE Append(str_indices, Head(keys)))

\* (a.start, a.end) < (b.start, b.end)
TupleLess(a, b) ==
    \/ a.start < b.start
    \/ a.start = b.start /\ a.end < b.end

\* del list[i] (i from 1)
Remove(list, i) == SubSeq(list, 1, i - 1) \o SubSeq(list, i + 1, Len(list))

\* the merge pointers <<input, position>> of the inputs that use index
merge_ptr_init(segmentations, index) ==
    LET Uses(k) == DictHas(segmentations[k].str_index_ptr, index)
        users == SelectSeq([k \in 1..Len(segmentations) |-> k], Uses)
    IN  [i \in 1..Len(users) |->
            <<users[i], DictGet(segmentations[users[i]].str_index_ptr, index)>>]

\* the segment a merge pointer is at
merge_ptr_segment(segmentations, ptr) == getitem(segmentations[ptr[1]], ptr[2])

\* "get the first segment ordered by (start,end)"
RECURSIVE argmin_scan(_, _, _, _)
argmin_scan(segmentations, merge_ptr, i, argmin) ==
    IF i > Len(merge_ptr) THEN argmin
    ELSE argmin_scan(
             segmentations, merge_ptr, i + 1,
             IF TupleLess(merge_ptr_segment(segmentations, merge_ptr[i]),
                          merge_ptr_segment(segmentations, merge_ptr[argmin]))
             THEN i ELSE argmin)

\* the advance without "if we are done with this segmentation, remove it"
merge_ptr_advance_past_run(segmentations, index, merge_ptr, argmin) ==
    LET k == merge_ptr[argmin][1]
        p == merge_ptr[argmin][2]
    IN  IF p + 1 >= Len(segmentations[k].segs)
        THEN Remove(merge_ptr, argmin)
        ELSE [merge_ptr EXCEPT ![argmin] = <<k, p + 1>>]

\* the merge pointers after the segment at argmin has been taken
merge_ptr_advance(segmentations, index, merge_ptr, argmin) ==
    LET k == merge_ptr[argmin][1]
        p == merge_ptr[argmin][2]
    IN  IF p + 1 >= Len(segmentations[k].segs)
        THEN Remove(merge_ptr, argmin)
        ELSE IF getitem(segmentations[k], p + 1).str_index # index
             THEN Remove(merge_ptr, argmin)
             ELSE [merge_ptr EXCEPT ![argmin] = <<k, p + 1>>]

\* "And perform a merge sort": the while loop for one str_index
RECURSIVE merge_loop(_, _, _, _, _, _)
merge_loop(segmentations, index, merge_ptr, new_segments, last_seen, o) ==
    IF Len(merge_ptr) = 0 THEN new_segments
    ELSE
      LET argmin == argmin_scan(segmentations, merge_ptr, 2, 1)
          segment == merge_ptr_segment(segmentations, merge_ptr[argmin])
          segmentation == segmentations[merge_ptr[argmin][1]]
          new_segment ==
              IF o.import_labels_as # ""
              THEN deepcopy(segment,
                            {<<o.import_labels_as, segmentation.label>>},
                            o.copy_annotations)
              ELSE deepcopy(segment, NoAnnotations, o.copy_annotations)
          last_segment == getitem(new_segments, -1)
      IN  merge_loop(
              segmentations, index,
              merge_ptr_advance(segmentations, index, merge_ptr, argmin),
              IF /\ o.merge_duplicates
                 /\ last_seen # NoSegment
                 /\ last_seen.start = new_segment.start
                 /\ last_seen.end = new_segment.end
              THEN setitem(new_segments, -1,
                       [last_segment EXCEPT !.annotations =
                           AnnUpdate(@, new_segment.annotations)])
              ELSE append(new_segments, new_segment),
              segment, o)

\* "For each str_index..."
RECURSIVE concatenate_indices(_, _, _, _, _)
concatenate_indices(segmentations, str_indices, j, new_segments, o) ==
    IF j > Len(str_indices) THEN new_segments
    ELSE concatenate_indices(
             segmentations, str_indices, j + 1,
             merge_loop(segmentations, str_indices[j],
                        merge_ptr_init(segmentations, str_indices[j]),
                        new_segments, NoSegment, o),
             o)

\* Segmenter._auto_number(segmentation, annotation_key)
_auto_number(segmentation, annotation_key) ==
    [segmentation EXCEPT !.segs =
        [i \in 1..Len(segmentation.segs) |->
            [segmentation.segs[i] EXCEPT !.annotations =
                AnnUpdate(@, {<<annotation_key, i>>})]]]

\* Segmenter.concatenate(segmentations, label, copy_annotations,
\*                       import_labels_as, sort, auto_number_as,
\*                       merge_duplicates), the options as a record o
concatenate(segmentations, o) ==
    LET first_seen == unique_keys(all_keys(segmentations), <<>>)
        str_indices == IF o.sort THEN SortedInts(Range(first_seen))
                       ELSE first_seen
        new_segments ==
            concatenate_indices(segmentations, str_indices, 1,
                                [EmptySegmentation EXCEPT !.label = o.label],
                                o)
    IN  IF o.auto_number_as # ""
        THEN _auto_number(new_segments, o.auto_number_as)
        ELSE new_segments

----------------------------------------------------------------------------
(* Segmentation.is_non_overlapping and Segmenter.recode.  The recoding is  *)
(* the change of case and a list of substitutions whose regex is a single  *)
(* literal character; remove_accents keeps its default (False).            *)

\* Segmentation.is_non_overlapping()
is_non_overlapping(d, S) ==
    LET segmentation_sorted == _sort(S).seg
    IN  \A first_index \in 0..(Len(segmentation_sorted.segs) - 2) :
          \A second_index \in
                  (first_index + 1)..(Len(segmentation_sorted.segs) - 1) :
            LET first_segment == getitem(segmentation_sorted, first_index)
                second_segment == getitem(segmentation_sorted, second_index)
                first_end ==
                    PyOr(first_segment.end,
                         Len(get_data(d, first_segment.str_index).str))
            IN  second_segment.str_index = first_segment.str_index =>
                    ~(PyOr(second_segment.start, 0) < first_end)

\* str.upper() on the characters in use
upper(c) == CASE c = "a" -> "A" [] c = "b" -> "B" [] OTHER -> c

\* regex.subn(repl_string, text) for the regex matching the character pat:
\* the new text and the number of substitutions
RECURSIVE subn(_, _, _)
subn(pat, repl_string, text) ==
    IF text = <<>> THEN [text |-> <<>>, num_subs |-> 0]
    ELSE LET rest == subn(pat, repl_string, Tail(text))
         IN  IF Head(text) = pat
             THEN [text |-> repl_string \o rest.text,
                   num_subs |-> rest.num_subs + 1]
             ELSE [text |-> <<Head(text)>> \o rest.text,
                   num_subs |-> rest.num_subs]

\* "Apply substitutions (if any)..."
RECURSIVE apply_substitutions(_, _, _)
apply_substitutions(substitutions, recoded_text, total_num_subs) ==
    IF substitutions = <<>>
    THEN [text |-> recoded_text, total_num_subs |-> total_num_subs]
    ELSE LET r == subn(substitutions[1][1], substitutions[1][2], recoded_text)
         IN  apply_substitutions(Tail(substitutions), r.text,
                                 total_num_subs + r.num_subs)

\* the recoded text of a segment's content
recoded_text_of(original_text, substitutions, case, total_num_subs) ==
    apply_substitutions(
        substitutions,
        IF case = "upper"
        THEN [i \in 1..Len(original_text) |-> upper(original_text[i])]
        ELSE original_text,
        total_num_subs)

\* Input().update(text, label), as the specification describes an Input:
\* it appends one entry to the string store and yields one segment
\* covering it
Input_update(d, text) ==
    [data |-> Append(d, Str(text)),
     segment |-> Segment(Len(d), 0, Len(text), {})]

\* the unchanged branch with new_str_index following the str_index of the
\* first unchanged segment only
recode_unchanged_first_index(r, segment, copy_annotations) ==
    LET redirect == r.last_recoded /\ segment.str_index = r.old_str_index
        d == IF redirect
             THEN set_data(r.data, -1, Ref(r.old_str_index)).data
             ELSE r.data
        redirected == IF redirect THEN Len(d) - 1 ELSE r.new_str_index
        new_str_index == IF r.old_str_index = -1
                         THEN segment.str_index ELSE redirected
        new_segment ==
            Segment(new_str_index, segment.start, segment.end,
                    IF copy_annotations THEN segment.annotations ELSE {})
    IN  [r EXCEPT !.data = d,
                  !.old_str_index = segment.str_index,
                  !.new_str_index = new_str_index,
                  !.last_recoded = FALSE,
                  !.new_objects =
                      Append(@, [is_input |-> FALSE, segment |-> new_segment])]

\* "Else if text was not modified, create and store new Segment..."
recode_unchanged(r, segment, copy_annotations) ==
    LET redirect == r.last_recoded /\ segment.str_index = r.old_str_index
        d == IF redirect
             THEN set_data(r.data, -1, Ref(r.old_str_index)).data
             ELSE r.data
        redirected == IF redirect THEN Len(d) - 1 ELSE r.new_str_index
        new_str_index == IF segment.str_index # r.old_str_index
                         THEN segment.str_index ELSE redirected
        new_segment ==
            Segment(new_str_index, segment.start, segment.end,
                    IF copy_annotations THEN segment.annotations ELSE {})
    IN  [r EXCEPT !.data = d,
                  !.old_str_index = segment.str_index,
                  !.new_str_index = new_str_index,
                  !.last_recoded = FALSE,
                  !.new_objects =
                      Append(@, [is_input |-> FALSE, segment |-> new_segment])]

\* "If text was modified, create and store new Input..."
recode_changed(r, segment, recoded_text, copy_annotations) ==
    LET new_input == Input_update(r.data, recoded_text)
        modified_segment ==
            IF copy_annotations
            THEN [new_input.segment EXCEPT !.annotations =
                     AnnUpdate(@, segment.annotations)]
            ELSE new_input.segment
    IN  [r EXCEPT !.data = new_input.data,
                  !.last_recoded = TRUE,
                  !.new_objects =
                      Append(@, [is_input |-> TRUE,
                                 segment |-> modified_segment])]

\* "For each input segment..."
RECURSIVE recode_loop(_, _, _, _, _, _)
recode_loop(segmentation, i, r, substitutions, case, copy_annotations) ==
    IF i >= Len(segmentation.segs) THEN r
    ELSE
      LET segment == getitem(segmentation, i)
          original_text == get_content(r.data, segment)
          recoded == recoded_text_of(original_text, substitutions, case,
                                     r.total_num_subs)
          counted == [r EXCEPT !.total_num_subs = recoded.total_num_subs]
      IN  recode_loop(
              segmentation, i + 1,
              IF recoded.text # original_text
              THEN recode_changed(counted, segment, recoded.text,
                                  copy_annotations)
              ELSE recode_unchanged(counted, segment, copy_annotations),
              substitutions, case, copy_annotations)

\* the segmentation holding the segments of new_objects
RECURSIVE recode_collect(_, _, _)
recode_collect(new_objects, i, new_segmentation) ==
    IF i > Len(new_objects) THEN new_segmentation
    ELSE recode_collect(new_objects, i + 1,
                        append(new_segmentation, new_objects[i].segment))

\* Segmenter.recode(segmentation, substitutions, case, label,
\* copy_annotations): the store after the call, the exception raised, the
\* segmentation returned and the number of substitutions
recode(d, segmentation, substitutions, case, label, copy_annotations) ==
    IF ~is_non_overlapping(d, segmentation)
    THEN [data |-> d, raised |-> "ValueError",
          seg |-> EmptySegmentation, total_num_subs |-> 0]
    ELSE
      LET r == recode_loop(segmentation, 0,
                           [data |-> d, new_objects |-> <<>>,
                            last_recoded |-> FALSE, old_str_index |-> -1,
                            new_str_index |-> -1, total_num_subs |-> 0],
                           substitutions, case, copy_annotations)
      IN  [data |-> r.data, raised |-> "none",
           seg |-> recode_collect(
                       r.new_objects, 1,
                       [EmptySegmentation EXCEPT !.label = label]),
           total_num_subs |-> r.total_num_subs]

----------------------------------------------------------------------------
(* Segment.get_contained_segments / get_contained_segment_indices *)

\* the binary search for the start of the relevant segments
RECURSIVE binary_search(_, _, _, _)
binary_search(segmentation, start, start_search, end_search) ==
    IF end_search - start_search > 1
    THEN LET mid == (end_search + start_search) \div 2
             middle == getitem(segmentation, mid)
         IN  IF PyOr(middle.start, 0) >= start
             THEN binary_search(segmentation, start, start_search, mid)
             ELSE binary_search(segmentation, start, mid, end_search)
    ELSE start_search

\* the position before the first segment to look at, or NoKey when the
\* segmentation has no segment of this str_index (the KeyError caught)
NoKey == -2

\* search_start without "in case we need the very first segment"
search_start_no_first(self, segmentation) ==
    IF ~DictHas(segmentation.str_index_ptr, self.str_index) THEN NoKey
    ELSE
      LET first == DictGet(segmentation.str_index_ptr, self.str_index)
          end_search ==
              Min({x \in Range(DictValues(segmentation.str_index_ptr)) :
                      x > first} \cup {Len(segmentation.segs)})
      IN  binary_search(segmentation, PyOr(self.start, 0), first, end_search)

search_start(self, segmentation) ==
    IF ~DictHas(segmentation.str_index_ptr, self.str_index) THEN NoKey
    ELSE
      LET first == DictGet(segmentation.str_index_ptr, self.str_index)
          end_search ==
              Min({x \in Range(DictValues(segmentation.str_index_ptr)) :
                      x > first} \cup {Len(segmentation.segs)})
          start_search ==
              binary_search(segmentation, PyOr(self.start, 0), first,
                            end_search)
      IN  IF PyOr(getitem(segmentation, start_search).start, 0)
                 >= PyOr(self.start, 0)
          THEN start_search - 1
          ELSE start_search

\* the iteration from position i on, collecting positions
RECURSIVE scan_indices(_, _, _, _, _)
scan_indices(segmentation, str_index, end, string_length, i) ==
    IF i >= Len(segmentation.segs) THEN <<>>
    ELSE LET segment == getitem(segmentation, i)
         IN  IF str_index # segment.str_index \/ PyOr(segment.start, 0) > end
             THEN <<>>
             ELSE (IF end >= PyOr(segment.end, string_length)
                   THEN <<i>> ELSE <<>>)
                  \o scan_indices(segmentation, str_index, end,
                                  string_length, i + 1)

\* the iteration from position i on, collecting segments
RECURSIVE scan_segments(_, _, _, _, _)
scan_segments(segmentation, str_index, end, string_length, i) ==
    IF i >= Len(segmentation.segs) THEN <<>>
    ELSE LET segment == getitem(segmentation, i)
         IN  IF str_index # segment.str_index \/ PyOr(segment.start, 0) > end
             THEN <<>>
             ELSE (IF end >= PyOr(segment.end, string_length)
                   THEN <<segment>> ELSE <<>>)
                  \o scan_segments(segmentation, str_index, end,
                                   string_length, i + 1)

\* Segment.get_contained_segments
get_contained_segments(d, self, segmentation) ==
    LET string_length == Len(get_data(d, self.str_index).str)
        end == PyOr(self.end, string_length)
        start_search == search_start(self, segmentation)
    IN  IF start_search = NoKey THEN <<>>
        ELSE scan_segments(segmentation, self.str_index, end, string_length,
                           start_search + 1)

\* Segment.get_contained_segment_indices
get_contained_segment_indices(d, self, segmentation) ==
    LET string_length == Len(get_data(d, self.str_index).str)
        end == PyOr(self.end, string_length)
        start_search == search_start(self, segmentation)
    IN  IF start_search = NoKey THEN <<>>
        ELSE scan_indices(segmentation, self.str_index, end, string_length,
                          start_search + 1)

----------------------------------------------------------------------------
(* Table (construction from a dictionary, get) and                         *)
(* Processor.count_in_context for unit sequences of length 1.  An absent   *)
(* annotation key (None) is the empty string.                              *)

\* dict.get(k, default)
DictGetDefault(d, k, default) == IF DictHas(d, k) THEN DictGet(d, k) ELSE default

\* annotations.get(key, default)
AnnGet(a, k, default) ==
    IF k \in AnnKeys(a) THEN (CHOOSE p \in a : p[1] = k)[2] ELSE default

\* dict(map(reversed, enumerate(ids))): id -> position, the last one wins
mapping(ids) ==
    DictUpdate(<<>>, [i \in 1..Len(ids) |-> <<ids[i], i - 1>>])

\* the table raised instead of built
NoTable == [row_ids |-> <<>>, col_ids |-> <<>>, row_mapping |-> <<>>,
            col_mapping |-> <<>>, values |-> <<>>, missing |-> 0]

\* Table.__init__(row_ids, col_ids, values, ..., missing) for a dictionary
\* of values: next(itervalues(values)) raises when it is empty; the
\* dok_matrix keeps no entry for a value of 0
Table(row_ids, col_ids, values, missing) ==
    IF values = <<>>
    THEN [raised |-> "StopIteration", table |-> NoTable]
    ELSE [raised |-> "none",
          table |->
              [row_ids |-> row_ids, col_ids |-> col_ids,
               row_mapping |-> mapping(row_ids),
               col_mapping |-> mapping(col_ids),
               values |->
                   LET NonZero(item) == item[2] # 0
                       stored == SelectSeq(values, NonZero)
                   IN  DictUpdate(<<>>,
                           [i \in 1..Len(stored) |->
                               <<<<DictGet(mapping(row_ids), stored[i][1][1]),
                                   DictGet(mapping(col_ids), stored[i][1][2])>>,
                                 stored[i][2]>>]),
               missing |-> missing]]

\* Table.get(row, col)
get(table, row, col) ==
    IF DictHas(table.row_mapping, row) /\ DictHas(table.col_mapping, col)
    THEN DictGetDefault(table.values,
                        <<DictGet(table.row_mapping, row),
                          DictGet(table.col_mapping, col)>>,
                        table.missing)
    ELSE table.missing

\* Table.get(row, col, missing) with the missing value given
get_missing(table, row, col, missing) ==
    get([table EXCEPT !.missing = IF missing = None THEN @ ELSE missing],
        row, col)

\* np.unique(ids).tolist(): the distinct ids, sorted (the ids of the
\* tables of this model are "a", "b", "c")
unique(ids) ==
    LET Present(id) == id \in Range(ids)
    IN  SelectSeq(<<"a", "b", "c">>, Present)

\* IntPivotCrosstab.to_flat(): a FlatCrosstab, one row [col_id, row_id] per
\* occurrence, table row after table row
to_flat(table) ==
    LET RECURSIVE flat_row(_, _, _)
        flat_row(row_id, j, new_values) ==
            IF j > Len(table.col_ids) THEN new_values
            ELSE LET col_id == table.col_ids[j]
                     count == get_missing(table, row_id, col_id, 0)
                 IN  flat_row(row_id, j + 1,
                              new_values
                                  \o [n \in 1..count |-> <<col_id, row_id>>])
        RECURSIVE flat_rows(_, _)
        flat_rows(i, new_values) ==
            IF i > Len(table.row_ids) THEN new_values
            ELSE flat_rows(i + 1, flat_row(table.row_ids[i], 1, new_values))
        new_values == flat_rows(1, <<>>)
    IN  [row_ids |-> [n \in 1..Len(new_values) |-> n],
         values |-> new_values, missing |-> table.missing]

\* FlatCrosstab.to_pivot(): values[:, 1] of an array made from an empty
\* list raises; "new_values[row, col] = new_values[row, col] + 1"
flat_to_pivot(flat) ==
    IF flat.values = <<>>
    THEN [raised |-> "IndexError", table |-> NoTable]
    ELSE
      LET values == flat.values
          new_col_ids == unique([i \in 1..Len(values) |-> values[i][2]])
          new_row_ids == unique([i \in 1..Len(values) |-> values[i][1]])
          row_mapping == mapping(new_row_ids)
          col_mapping == mapping(new_col_ids)
          RECURSIVE fill(_, _)
          fill(i, new_values) ==
              IF i > Len(values) THEN new_values
              ELSE LET row == DictGet(row_mapping, values[i][1])
                       col == DictGet(col_mapping, values[i][2])
                   IN  fill(i + 1,
                            DictSet(new_values, <<row, col>>,
                                    DictGetDefault(new_values, <<row, col>>, 0)
                                        + 1))
      IN  [raised |-> "none",
           table |->
               [row_ids |-> new_row_ids, col_ids |-> new_col_ids,
                row_mapping |-> row_mapping, col_mapping |-> col_mapping,
                values |-> fill(1, <<>>),
                missing |-> flat.missing]]

\* PivotCrosstab.to_weighted_flat(): one row (col_id, row_id, count) per
\* non-zero cell, table row after table row
to_weighted_flat(table) ==
    LET RECURSIVE weighted_row(_, _, _)
        weighted_row(row_id, j, new_values) ==
            IF j > Len(table.col_ids) THEN new_values
            ELSE LET col_id == table.col_ids[j]
                     count == get_missing(table, row_id, col_id, 0)
                 IN  weighted_row(row_id, j + 1,
                                  IF count = 0 THEN new_values
                                  ELSE Append(new_values,
                                              <<col_id, row_id, count>>))
        RECURSIVE weighted_rows(_, _)
        weighted_rows(i, new_values) ==
            IF i > Len(table.row_ids) THEN new_values
            ELSE weighted_rows(i + 1,
                               weighted_row(table.row_ids[i], 1, new_values))
        new_values == weighted_rows(1, <<>>)
    IN  [row_ids |-> [n \in 1..Len(new_values) |-> n],
         values |-> new_values, missing |-> table.missing]

\* WeightedFlatCrosstab.to_pivot() taking the row ids from column 0 and the
\* col ids from column 1
weighted_to_pivot_transposed(weighted) ==
    LET values == weighted.values
        new_col_ids == unique([i \in 1..Len(values) |-> values[i][2]])
        new_row_ids == unique([i \in 1..Len(values) |-> values[i][1]])
        row_mapping == mapping(new_row_ids)
        col_mapping == mapping(new_col_ids)
    IN  [raised |-> "none",
         table |->
             [row_ids |-> new_row_ids, col_ids |-> new_col_ids,
              row_mapping |-> row_mapping, col_mapping |-> col_mapping,
              values |->
                  DictUpdate(<<>>,
                      [i \in 1..Len(values) |->
                          <<<<DictGet(row_mapping, values[i][1]),
                              DictGet(col_mapping, values[i][2])>>,
                            values[i][3]>>]),
              missing |-> weighted.missing]]

\* WeightedFlatCrosstab.to_pivot()
weighted_to_pivot(weighted) ==
    LET values == weighted.values
        new_col_ids == unique([i \in 1..Len(values) |-> values[i][1]])
        new_row_ids == unique([i \in 1..Len(values) |-> values[i][2]])
        row_mapping == mapping(new_row_ids)
        col_mapping == mapping(new_col_ids)
    IN  [raised |-> "none",
         table |->
             [row_ids |-> new_row_ids, col_ids |-> new_col_ids,
              row_mapping |-> row_mapping, col_mapping |-> col_mapping,
              values |->
                  DictUpdate(<<>>,
                      [i \in 1..Len(values) |->
                          <<<<DictGet(row_mapping, values[i][2]),
                              DictGet(col_mapping, values[i][1])>>,
                            values[i][3]>>]),
              missing |-> weighted.missing]]

\* the type of a token: its annotation value or its content
token_type(d, token, annotation_key) ==
    IF annotation_key # ""
    THEN AnnGet(token.annotations, annotation_key, "__none__")
    ELSE get_content(d, token)

\* list.insert(0, x) unless x is in the list
PrependNew(list, x) == IF x \in Range(list) THEN list ELSE <<x>> \o list

\* list.append(x) unless x is in the list
AppendNew(list, x) == IF x \in Range(list) THEN list ELSE Append(list, x)

\* "Increment count of context-unit pair" that sets the count to 1
increment_once(freq, type_pair) == DictSet(freq, type_pair, 1)

\* "Increment count of context-unit pair..."
increment(freq, type_pair) ==
    DictSet(freq, type_pair, DictGetDefault(freq, type_pair, 0) + 1)

\* CASE 1B: "Loop over unit tokens (=contained segments)"
RECURSIVE count_unit_tokens(_, _, _, _, _, _)
count_unit_tokens(d, unit_tokens, j, context_type, unit_annotation_key, c) ==
    IF j > Len(unit_tokens) THEN c
    ELSE LET unit_type ==
                 token_type(d, unit_tokens[j], unit_annotation_key)
         IN  count_unit_tokens(
                 d, unit_tokens, j + 1, context_type, unit_annotation_key,
                 [context_types |-> AppendNew(c.context_types, context_type),
                  unit_types |-> AppendNew(c.unit_types, unit_type),
                  freq |-> increment(c.freq, <<context_type, unit_type>>)])

\* CASE 1B: "Loop over context tokens (=containing segments)"
RECURSIVE count_context_tokens(_, _, _, _, _, _)
count_context_tokens(d, units, contexts, i, context_type, c) ==
    IF i >= Len(contexts.segmentation.segs) THEN c
    ELSE
      LET context_token == getitem(contexts.segmentation, i)
          new_context_type ==
              IF ~contexts.merge
              THEN token_type(d, context_token, contexts.annotation_key)
              ELSE context_type
      IN  count_context_tokens(
              d, units, contexts, i + 1, new_context_type,
              count_unit_tokens(
                  d,
                  get_contained_segments(d, context_token,
                                         units.segmentation),
                  1, new_context_type, units.annotation_key, c))

\* CASE 2B: "Loop over unit tokens (=contained segments)"
RECURSIVE count_unit_list(_, _, _)
count_unit_list(unit_list, j, freq) ==
    IF j > Len(unit_list) THEN freq
    ELSE count_unit_list(unit_list, j + 1,
                         increment(freq, <<"__global__", unit_list[j]>>))

\* the orders list(set(unit_list)) may come in
SetOrders(S) ==
    {order \in [1..Cardinality(S) -> S] : Range(order) = S}

NoSegmentation == [segs |-> <<>>, str_index_ptr |-> <<>>, label |-> "__None__"]

\* Processor.count_in_context(units, contexts) with seq_length 1;
\* contexts.segmentation is NoSegmentation when there is none, set_order
\* is the order in which list(set(unit_list)) comes
count_in_context(d, units, contexts, set_order) ==
    IF contexts.segmentation # NoSegmentation
    THEN LET c == count_context_tokens(
                      d, units, contexts, 0, "__global__",
                      [context_types |-> <<>>, unit_types |-> <<>>,
                       freq |-> <<>>])
         IN  Table(c.context_types, c.unit_types, c.freq, 0)
    ELSE LET unit_list ==
                 [j \in 1..Len(units.segmentation.segs) |->
                     token_type(d, units.segmentation.segs[j],
                                units.annotation_key)]
         IN  Table(<<"__global__">>, set_order,
                   count_unit_list(unit_list, 1, <<>>), 0)

\* text(i) of a window index
text(i) == <<"1", "2", "3", "4", "5", "6", "7", "8", "9">>[i]

\* count_in_window whose entering sequence starts one unit too early
count_in_window_early(d, units, window_size, set_order) ==
    LET segs == units.segmentation.segs
        unit_seq_length == units.seq_length
        unit_list ==
            [j \in 1..Len(segs) |->
                IF units.annotation_key # ""
                THEN AnnGet(segs[j].annotations, units.annotation_key,
                            "__none__")
                ELSE get_content(d, segs[j])]
        RECURSIVE seq_join(_, _)
        seq_join(from, to) ==
            LET unit == IF units.annotation_key # "" THEN <<unit_list[to]>>
                        ELSE unit_list[to]
            IN  IF to = from THEN unit
                ELSE seq_join(from, to - 1) \o <<"#">> \o unit
        sequence_at(p) ==
            IF unit_seq_length > 1 THEN seq_join(p + 1, p + unit_seq_length)
            ELSE unit_list[p + 1]
        counted(c, unit_type) ==
            [c EXCEPT
               !.window_freq = DictSet(@, unit_type,
                                       DictGetDefault(@, unit_type, 0) + 1),
               !.unit_types = AppendNew(@, unit_type)]
        RECURSIVE first_window(_, _)
        first_window(unit_index, c) ==
            IF unit_index >= window_size - (unit_seq_length - 1) THEN c
            ELSE first_window(unit_index + 1,
                              counted(c, sequence_at(unit_index)))
        window_items(window_str, window_freq) ==
            [k \in 1..Len(window_freq) |->
                <<<<window_str, window_freq[k][1]>>, window_freq[k][2]>>]
        RECURSIVE other_windows(_, _)
        other_windows(window_index, c) ==
            IF window_index >= Len(segs) - (window_size - 1) THEN c
            ELSE
              LET first == sequence_at(window_index - 1)
                  decremented ==
                      [c EXCEPT !.window_freq =
                          DictSet(@, first, DictGet(@, first) - 1)]
                  incremented ==
                      counted(decremented,
                              sequence_at(window_index + window_size
                                              - unit_seq_length - 1))
                  window_type == window_index + 1
              IN  other_windows(
                      window_index + 1,
                      [incremented EXCEPT
                         !.window_type = window_type,
                         !.freq = DictUpdate(@,
                                     window_items(text(window_type),
                                                  incremented.window_freq))])
    IN  IF units.segmentation # NoSegmentation
           /\ Len(segs) >= window_size /\ window_size >= units.seq_length
        THEN LET first == first_window(0, [window_freq |-> <<>>,
                                           unit_types |-> <<>>,
                                           window_type |-> 1,
                                           freq |-> <<>>])
                 c == other_windows(
                          1, [first EXCEPT !.freq =
                                  window_items("1", first.window_freq)])
             IN  Table([i \in 1..c.window_type |-> text(i)],
                       IF unit_seq_length > 1 THEN c.unit_types
                       ELSE set_order,
                       c.freq, 0)
        ELSE Table(<<"1">>, <<>>, <<>>, 0)

\* Processor.count_in_window(units, window_size) with the default
\* intra_seq_delimiter '#'; set_order is the order in which
\* list(set(unit_list)) comes (CASE 2: seq_length 1)
count_in_window(d, units, window_size, set_order) ==
    LET segs == units.segmentation.segs
        unit_seq_length == units.seq_length
        unit_list ==
            [j \in 1..Len(segs) |->
                IF units.annotation_key # ""
                THEN AnnGet(segs[j].annotations, units.annotation_key,
                            "__none__")
                ELSE get_content(d, segs[j])]
        \* '#'.join(unit_list[from - 1:to])
        RECURSIVE seq_join(_, _)
        seq_join(from, to) ==
            LET unit == IF units.annotation_key # "" THEN <<unit_list[to]>>
                        ELSE unit_list[to]
            IN  IF to = from THEN unit
                ELSE seq_join(from, to - 1) \o <<"#">> \o unit
        \* the unit, or the joined sequence of units, that starts at index p
        sequence_at(p) ==
            IF unit_seq_length > 1 THEN seq_join(p + 1, p + unit_seq_length)
            ELSE unit_list[p + 1]
        counted(c, unit_type) ==
            [c EXCEPT
               !.window_freq = DictSet(@, unit_type,
                                       DictGetDefault(@, unit_type, 0) + 1),
               !.unit_types = AppendNew(@, unit_type)]
        \* "Get counts for first window..."
        RECURSIVE first_window(_, _)
        first_window(unit_index, c) ==
            IF unit_index >= window_size - (unit_seq_length - 1) THEN c
            ELSE first_window(unit_index + 1,
                              counted(c, sequence_at(unit_index)))
        window_items(window_str, window_freq) ==
            [k \in 1..Len(window_freq) |->
                <<<<window_str, window_freq[k][1]>>, window_freq[k][2]>>]
        \* "Loop over other window indices..."
        RECURSIVE other_windows(_, _)
        other_windows(window_index, c) ==
            IF window_index >= Len(segs) - (window_size - 1) THEN c
            ELSE
              LET first == sequence_at(window_index - 1)
                  decremented ==
                      [c EXCEPT !.window_freq =
                          DictSet(@, first, DictGet(@, first) - 1)]
                  incremented ==
                      counted(decremented,
                              sequence_at(window_index + window_size
                                              - unit_seq_length))
                  window_type == window_index + 1
              IN  other_windows(
                      window_index + 1,
                      [incremented EXCEPT
                         !.window_type = window_type,
                         !.freq = DictUpdate(@,
                                     window_items(text(window_type),
                                                  incremented.window_freq))])
    IN  IF units.segmentation # NoSegmentation
           /\ Len(segs) >= window_size /\ window_size >= units.seq_length
        THEN LET first == first_window(0, [window_freq |-> <<>>,
                                           unit_types |-> <<>>,
                                           window_type |-> 1,
                                           freq |-> <<>>])
                 c == other_windows(
                          1, [first EXCEPT !.freq =
                                  window_items("1", first.window_freq)])
             IN  Table([i \in 1..c.window_type |-> text(i)],
                       IF unit_seq_length > 1 THEN c.unit_types
                       ELSE set_order,
                       c.freq, 0)
        ELSE Table(<<"1">>, <<>>, <<>>, 0)

\* IntPivotCrosstab.to_normalized('presence/absence'):
\* dok_matrix(np.nan_to_num(self.values / self.values)), the true division
\* of the module (from __future__ import division) giving a float matrix
to_normalized_presence_absence(table) ==
    [row_ids |-> table.row_ids, col_ids |-> table.col_ids,
     row_mapping |-> table.row_mapping, col_mapping |-> table.col_mapping,
     values |-> [k \in 1..Len(table.values) |-> <<table.values[k][1], 1>>],
     missing |-> table.missing, dtype |-> "float"]

\* PivotCrosstab.to_numpy(): self.values.A, the dense array
to_numpy(table) ==
    [dtype |-> table.dtype,
     rows |-> [i \in 1..Len(table.row_ids) |->
                  [j \in 1..Len(table.col_ids) |->
                      DictGetDefault(table.values, <<i - 1, j - 1>>, 0)]],
     ncols |-> Len(table.col_ids)]

\* a[keep]: the rows of the array at the positions of the list
take(a, keep) == [a EXCEPT !.rows = [i \in 1..Len(keep) |-> a.rows[keep[i] + 1]]]

\* a.astype(int)
astype_int(a) == [a EXCEPT !.dtype = "int"]

RECURSIVE Sum(_, _)
Sum(f, n) == IF n = 0 THEN 0 ELSE f[n] + Sum(f, n - 1)

\* np.dot(np.transpose(a), b)
dot_transpose(a, b) ==
    [dtype |-> IF a.dtype = "int" /\ b.dtype = "int" THEN "int" ELSE "float",
     rows |-> [i \in 1..a.ncols |->
                  [j \in 1..b.ncols |->
                      Sum([k \in 1..Len(a.rows) |->
                              a.rows[k][i] * b.rows[k][j]],
                          Len(a.rows))]],
     ncols |-> b.ncols]

\* IntPivotCrosstab.from_numpy(row_ids, col_ids, np_array, ...): missing is
\* left to its default
from_numpy(row_ids, col_ids, np_array) ==
    IF np_array.dtype # "int"
    THEN [raised |-> "ValueError", table |-> NoTable]
    ELSE LET cells == [n \in 1..(Len(row_ids) * Len(col_ids)) |->
                          <<(n - 1) \div Len(col_ids), (n - 1) % Len(col_ids)>>]
             NonZero(cell) == np_array.rows[cell[1] + 1][cell[2] + 1] # 0
             stored == SelectSeq(cells, NonZero)
         IN  [raised |-> "none",
              table |->
                  [row_ids |-> row_ids, col_ids |-> col_ids,
                   row_mapping |-> mapping(row_ids),
                   col_mapping |-> mapping(col_ids),
                   values |->
                       [k \in 1..Len(stored) |->
                           <<stored[k],
                             np_array.rows[stored[k][1] + 1][stored[k][2] + 1]>>],
                   missing |-> None]]

\* Processor.cooc_in_window(units, window_size)
cooc_in_window(d, units, window_size, set_order) ==
    LET counted == count_in_window(d, units, window_size, set_order)
        contingency == counted.table
        np_contingency == to_numpy(to_normalized_presence_absence(contingency))
    IN  IF counted.raised # "none" THEN counted
        ELSE from_numpy(contingency.col_ids, contingency.col_ids,
                        dot_transpose(np_contingency, np_contingency))

\* Processor.cooc_in_context(units, contexts, units2); units2 is NoUnits
\* when there is none
NoUnits == [segmentation |-> NoSegmentation, annotation_key |-> "",
            seq_length |-> 1]

cooc_in_context(d, units, contexts, units2) ==
    LET counted == count_in_context(d, units, contexts, <<>>)
        contingency == counted.table
        np_contingency == to_numpy(to_normalized_presence_absence(contingency))
        counted2 == count_in_context(d, units2, contexts, <<>>)
        contingency2 == counted2.table
        np_contingency2 ==
            to_numpy(to_normalized_presence_absence(contingency2))
        row_labels == contingency.row_ids
        row_labels2 == contingency2.row_ids
        InLabels2(i) == row_labels[i + 1] \in Range(row_labels2)
        InLabels(i) == row_labels2[i + 1] \in Range(row_labels)
        keep_from_contingency ==
            SelectSeq([i \in 1..Len(row_labels) |-> i - 1], InLabels2)
        keep_from_contingency2 ==
            SelectSeq([i \in 1..Len(row_labels2) |-> i - 1], InLabels)
    IN  IF counted.raised # "none" THEN counted
        ELSE IF units2 # NoUnits
        THEN IF counted2.raised # "none" THEN counted2
             ELSE from_numpy(
                      contingency2.col_ids, contingency.col_ids,
                      dot_transpose(
                          astype_int(take(np_contingency2,
                                          keep_from_contingency2)),
                          astype_int(take(np_contingency,
                                          keep_from_contingency))))
        ELSE from_numpy(contingency.col_ids, contingency.col_ids,
                        dot_transpose(np_contingency, np_contingency))

----------------------------------------------------------------------------
(* Segmenter.tokenize.  A regex is a character class with a quantifier:    *)
(* "one" for [c], "plus" for [c]+, "star" for [c]*; its annotation is a    *)
(* set of at most one <<key, value>>, without backreferences.              *)

\* the spans <<start, end>> of re.finditer(regex, content), in order;
\* adjacent_empty tells whether the re module lets an empty match follow a
\* non-empty one at the offset where it ends (Python 3.7 and later)
finditer(regex, content, adjacent_empty) ==
    LET n == Len(content)
        In(p) == content[p] \in regex.chars
        ones == {<<p - 1, p>> : p \in {q \in 1..n : In(q)}}
        runs == {r \in (0..n) \X (0..n) :
                    /\ r[1] < r[2]
                    /\ \A p \in (r[1] + 1)..r[2] : In(p)
                    /\ r[1] = 0 \/ ~In(r[1])
                    /\ r[2] = n \/ ~In(r[2] + 1)}
        empties == {<<q, q>> : q \in {p \in 0..n :
                       /\ p = n \/ ~In(p + 1)
                       /\ adjacent_empty \/ ~\E r \in runs : r[2] = p}}
        spans == CASE regex.quant = "one" -> ones
                   [] regex.quant = "plus" -> runs
                   [] regex.quant = "star" -> runs \cup empties
        RECURSIVE in_order(_)
        in_order(S) ==
            IF S = {} THEN <<>>
            ELSE LET first == CHOOSE s \in S : \A o \in S : s[1] <= o[1]
                 IN  <<first>> \o in_order(S \ {first})
    IN  in_order(spans)

\* tokenize, CASE 1: the segments of the matches of a regex in mode
\* 'tokenize'
tokenize_matches(str_index, start, matches, annotations) ==
    [i \in 1..Len(matches) |->
        Segment(str_index, start + matches[i][1], start + matches[i][2],
                annotations)]

\* CASE 2 without the segment after the last match
split_matches_without_last(str_index, start, content, matches, annotations) ==
    LET RECURSIVE split_loop(_, _, _)
        split_loop(i, previous_end_pos, new_segments) ==
            IF i > Len(matches) THEN new_segments
            ELSE IF start + matches[i][1] = previous_end_pos
            THEN split_loop(i + 1, start + matches[i][2], new_segments)
            ELSE split_loop(i + 1, start + matches[i][2],
                            Append(new_segments,
                                   Segment(str_index, previous_end_pos,
                                           start + matches[i][1],
                                           annotations)))
    IN  split_loop(1, start, <<>>)

\* tokenize, CASE 2: the segments between the matches of a regex in mode
\* 'split'
split_matches(str_index, start, content, matches, annotations) ==
    LET segment_end_pos == start + Len(content)
        RECURSIVE split_loop(_, _, _)
        split_loop(i, previous_end_pos, new_segments) ==
            IF i > Len(matches)
            THEN IF previous_end_pos < segment_end_pos
                 THEN Append(new_segments,
                             Segment(str_index, previous_end_pos,
                                     segment_end_pos, annotations))
                 ELSE new_segments
            ELSE IF start + matches[i][1] = previous_end_pos
            THEN split_loop(i + 1, start + matches[i][2], new_segments)
            ELSE split_loop(i + 1, start + matches[i][2],
                            Append(new_segments,
                                   Segment(str_index, previous_end_pos,
                                           start + matches[i][1],
                                           annotations)))
    IN  split_loop(1, start, <<>>)

\* list.sort(key=lambda s: (s.str_index, s.start, s.end)): a stable sort
RECURSIVE sort_by_address(_)
sort_by_address(list) ==
    IF list = <<>> THEN <<>>
    ELSE LET sorted == sort_by_address(SubSeq(list, 1, Len(list) - 1))
             x == list[Len(list)]
             key_leq(a, b) ==
                 \/ a[1] < b[1]
                 \/ a[1] = b[1] /\ a[2] < b[2]
                 \/ a[1] = b[1] /\ a[2] = b[2] /\ a[3] <= b[3]
             before == {i \in 1..Len(sorted) :
                           key_leq(Address(sorted[i]), Address(x))}
             k == IF before = {} THEN 0
                  ELSE CHOOSE i \in before : \A j \in before : j <= i
         IN  SubSeq(sorted, 1, k) \o <<x>> \o SubSeq(sorted, k + 1, Len(sorted))

\* Segmenter._merge_duplicate_segments(segmentation, take_first)
_merge_duplicate_segments(segmentation, take_first) ==
    LET RECURSIVE merge_duplicates_loop(_, _, _)
        merge_duplicates_loop(i, last_seen, new_segments) ==
            IF i > Len(segmentation.segs) THEN new_segments
            ELSE
              LET segment == segmentation.segs[i]
                  last_segment == getitem(new_segments, -1)
              IN  IF /\ last_seen # NoSegment
                     /\ last_seen.str_index = segment.str_index
                     /\ last_seen.start = segment.start
                     /\ last_seen.end = segment.end
                  THEN merge_duplicates_loop(
                           i + 1, segment,
                           setitem(new_segments, -1,
                               IF take_first
                               THEN [segment EXCEPT !.annotations =
                                        AnnUpdate(@, last_segment.annotations)]
                               ELSE [last_segment EXCEPT !.annotations =
                                        AnnUpdate(@, segment.annotations)]))
                  ELSE merge_duplicates_loop(i + 1, segment,
                                             append(new_segments, segment))
    IN  merge_duplicates_loop(
            1, NoSegment,
            [EmptySegmentation EXCEPT !.label = segmentation.label])

\* Segmenter.tokenize(segmentation, regexes, label, import_annotations,
\*                    merge_duplicates, auto_number_as)
tokenize(d, segmentation, regexes, label, import_annotations, merge_duplicates, auto_number_as, adjacent_empty) ==
    LET \* "For each regex..." of one input segment
        segments_of(segment, regex) ==
            LET start == PyOr(segment.start, 0)
                content == get_content(d, segment)
                annotations ==
                    AnnUpdate(IF import_annotations THEN segment.annotations
                              ELSE {},
                              regex.annotation)
                matches == finditer(regex, content, adjacent_empty)
            IN  IF regex.mode = "tokenize"
                THEN tokenize_matches(segment.str_index, start, matches,
                                      annotations)
                ELSE split_matches(segment.str_index, start, content, matches,
                                   annotations)
        RECURSIVE regex_loop(_, _, _)
        regex_loop(segment, regex_index, new_segments) ==
            IF regex_index > Len(regexes) THEN new_segments
            ELSE regex_loop(segment, regex_index + 1,
                            new_segments
                                \o segments_of(segment, regexes[regex_index]))
        \* "For each input segment..."
        RECURSIVE segment_loop(_, _)
        segment_loop(i, new_segmentation) ==
            IF i > Len(segmentation.segs) THEN new_segmentation
            ELSE segment_loop(
                     i + 1,
                     extend(new_segmentation,
                            sort_by_address(
                                regex_loop(segmentation.segs[i], 1, <<>>))))
        tokenized == segment_loop(1, [EmptySegmentation EXCEPT !.label = label])
        merged == IF merge_duplicates
                  THEN _merge_duplicate_segments(tokenized, FALSE)
                  ELSE tokenized
    IN  IF /\ Len(segmentation.segs) > 0
           /\ \E k \in 1..Len(regexes) :
                  regexes[k].mode \notin {"tokenize", "split"}
        THEN [raised |-> "ValueError", seg |-> EmptySegmentation]
        ELSE [raised |-> "none",
              seg |-> IF auto_number_as # ""
                      THEN _auto_number(merged, auto_number_as)
                      ELSE merged]

----------------------------------------------------------------------------
(* Segmenter.select, threshold, sample and intersect.  Each returns the    *)
(* pair (new_segmentation, neg_segmentation), here the fields pos and neg; *)
(* annotation values are strings of one character.                         *)

\* the string of an annotation value
chars_of(value) == <<value>>

\* regex.search(string) finds a match
search(regex, string) == finditer(regex, string, TRUE) # <<>>

\* the two segmentations filled by the loop over the input segments;
\* selected holds the indices of the segments whose copy goes to the first
distribute(segmentation, label, copy_annotations, selected) ==
    LET RECURSIVE distribute_loop(_, _)
        distribute_loop(i, out) ==
            IF i > Len(segmentation.segs) THEN out
            ELSE LET segment == segmentation.segs[i]
                     new_segment ==
                         deepcopy(segment, NoAnnotations, copy_annotations)
                 IN  distribute_loop(
                         i + 1,
                         IF (i - 1) \in selected
                         THEN [out EXCEPT !.pos = append(@, new_segment)]
                         ELSE [out EXCEPT !.neg = append(@, new_segment)])
    IN  distribute_loop(
            1,
            [raised |-> "none",
             pos |-> [EmptySegmentation EXCEPT !.label = label],
             neg |-> [EmptySegmentation EXCEPT !.label = <<"NEG_", label>>]])

\* what a function that raises leaves
Raises(exception) ==
    [raised |-> exception, pos |-> EmptySegmentation,
     neg |-> EmptySegmentation]

\* Segmenter.select(segmentation, regex, mode, annotation_key, label,
\*                  copy_annotations)
select(d, segmentation, regex, mode, annotation_key, label, copy_annotations) ==
    LET match(segment) ==
            IF annotation_key # ""
            THEN /\ annotation_key \in AnnKeys(segment.annotations)
                 /\ search(regex,
                           chars_of(AnnGet(segment.annotations,
                                           annotation_key, "")))
            ELSE search(regex, get_content(d, segment))
        Selected(index, segment) ==
            \/ match(segment) /\ mode = "include"
            \/ ~match(segment) /\ mode = "exclude"
    IN  distribute(segmentation, label, copy_annotations,
                   {index \in 0..(Len(segmentation.segs) - 1) :
                       Selected(index, segmentation.segs[index + 1])})

\* Segmenter.threshold(segmentation, min_count, max_count, annotation_key,
\*                     label, copy_annotations); None is an absent count
threshold(d, segmentation, min_count, max_count, annotation_key, label, copy_annotations) ==
    LET segs == segmentation.segs
        min == IF min_count = None THEN 0 ELSE min_count
        max == IF max_count = None THEN Len(segs) ELSE max_count
        HasKey(u) == annotation_key \in AnnKeys(u.annotations)
        with_key == SelectSeq(segs, HasKey)
        token_list ==
            IF annotation_key = ""
            THEN [i \in 1..Len(segs) |-> get_content(d, segs[i])]
            ELSE [i \in 1..Len(with_key) |->
                     AnnGet(with_key[i].annotations, annotation_key, "")]
        count(token) == Cardinality({i \in 1..Len(token_list) :
                                        token_list[i] = token})
        token_of(segment) ==
            IF annotation_key # ""
            THEN AnnGet(segment.annotations, annotation_key, "__none__")
            ELSE get_content(d, segment)
        Selected(index, segment) ==
            /\ min <= count(token_of(segment))
            /\ count(token_of(segment)) <= max
    IN  \* count[token] of a token that was not counted
        IF \E i \in 1..Len(segs) : token_of(segs[i]) \notin Range(token_list)
        THEN Raises("KeyError")
        ELSE distribute(segmentation, label, copy_annotations,
                   {index \in 0..(Len(segmentation.segs) - 1) :
                       Selected(index, segmentation.segs[index + 1])})

\* iround that truncates
ifloor(numerator, denominator) ==
    IF numerator < denominator THEN 1 ELSE numerator \div denominator

\* Utils.iround(x) for x = numerator / denominator > 0:
\* int(round(x) - .5) + (x > 0), round() taking a half to the even integer
iround(numerator, denominator) ==
    LET q == numerator \div denominator
        rest == numerator % denominator
        rounded == IF 2 * rest < denominator THEN q
                   ELSE IF 2 * rest > denominator THEN q + 1
                   ELSE IF q % 2 = 0 THEN q ELSE q + 1
    IN  (IF rounded = 0 THEN 0 ELSE rounded - 1) + 1

\* Segmenter.sample(segmentation, sample_size, mode, label,
\*                  copy_annotations); sampled is what random.sample
\* draws in mode 'random'
sample(segmentation, sample_size, mode, label, copy_annotations, sampled) ==
    LET n == Len(segmentation.segs)
        step == iround(n, sample_size)
        sampled_indices ==
            IF mode = "random" THEN sampled
            ELSE {index \in 0..(n - 1) : index % step = 0}
        Selected(index, segment) == index \in sampled_indices
    IN  IF mode = "random"
        THEN IF sample_size > n \/ sample_size < 0
             THEN Raises("ValueError")
             ELSE distribute(segmentation, label, copy_annotations,
                   {index \in 0..(Len(segmentation.segs) - 1) :
                       Selected(index, segmentation.segs[index + 1])})
        ELSE IF mode = "systematic"
        THEN IF sample_size = 0 \/ n = 0
             THEN Raises("ZeroDivisionError")
             ELSE distribute(segmentation, label, copy_annotations,
                   {index \in 0..(Len(segmentation.segs) - 1) :
                       Selected(index, segmentation.segs[index + 1])})
        ELSE Raises("ValueError")

\* Segmenter.intersect(source, filtering, source_annotation_key,
\*                     filtering_annotation_key, mode, label,
\*                     copy_annotations)
intersect(d, source, filtering, source_annotation_key, filtering_annotation_key, mode, label, copy_annotations) ==
    LET filtering_set ==
            IF filtering_annotation_key # ""
            THEN {chars_of(AnnGet(s.annotations, filtering_annotation_key, "")) :
                     s \in {f \in Range(filtering.segs) :
                               filtering_annotation_key
                                   \in AnnKeys(f.annotations)}}
            ELSE {get_content(d, s) : s \in Range(filtering.segs)}
        match(segment) ==
            IF source_annotation_key # ""
            THEN /\ source_annotation_key \in AnnKeys(segment.annotations)
                 /\ chars_of(AnnGet(segment.annotations,
                                    source_annotation_key, ""))
                        \in filtering_set
            ELSE get_content(d, segment) \in filtering_set
        Selected(index, segment) ==
            \/ match(segment) /\ mode = "include"
            \/ ~match(segment) /\ mode = "exclude"
    IN  distribute(source, label, copy_annotations,
                   {index \in 0..(Len(source.segs) - 1) :
                       Selected(index, source.segs[index + 1])})

----------------------------------------------------------------------------
(* Segment.get_contained_sequence_indices *)

\* get_contained_sequence_indices that leaves out the last sequence of a run
get_contained_sequence_indices_short(d, self, segmentation, length) ==
    LET contained_indices == get_contained_segment_indices(d, self, segmentation)
        key(p) == (p - 1) - contained_indices[p]
        RECURSIVE groupby(_, _)
        groupby(p, groups) ==
            IF p > Len(contained_indices) THEN groups
            ELSE IF p > 1 /\ key(p) = key(p - 1)
            THEN groupby(p + 1,
                         [groups EXCEPT ![Len(groups)] =
                             Append(@, contained_indices[p])])
            ELSE groupby(p + 1, Append(groups, <<contained_indices[p]>>))
        contained_idx_sequences == groupby(1, <<>>)
        RECURSIVE fixed_length(_)
        fixed_length(g) ==
            IF g > Len(contained_idx_sequences) THEN <<>>
            ELSE LET contained_idx_sequence == contained_idx_sequences[g]
                     n == Len(contained_idx_sequence) - length
                 IN  SubSeq(contained_idx_sequence, 1, IF n < 0 THEN 0 ELSE n)
                         \o fixed_length(g + 1)
    IN  IF length = 0 /\ contained_indices # <<>>
        THEN [raised |-> "IndexError", indices |-> <<>>]
        ELSE [raised |-> "none", indices |-> fixed_length(1)]

\* Segment.get_contained_sequence_indices(segmentation, length), for a
\* length that is not negative
get_contained_sequence_indices(d, self, segmentation, length) ==
    LET contained_indices == get_contained_segment_indices(d, self, segmentation)
        \* the key of groupby: position in the list minus index
        key(p) == (p - 1) - contained_indices[p]
        RECURSIVE groupby(_, _)
        groupby(p, groups) ==
            IF p > Len(contained_indices) THEN groups
            ELSE IF p > 1 /\ key(p) = key(p - 1)
            THEN groupby(p + 1,
                         [groups EXCEPT ![Len(groups)] =
                             Append(@, contained_indices[p])])
            ELSE groupby(p + 1, Append(groups, <<contained_indices[p]>>))
        contained_idx_sequences == groupby(1, <<>>)
        RECURSIVE fixed_length(_)
        fixed_length(g) ==
            IF g > Len(contained_idx_sequences) THEN <<>>
            ELSE LET contained_idx_sequence == contained_idx_sequences[g]
                     n == Len(contained_idx_sequence) - length + 1
                 IN  SubSeq(contained_idx_sequence, 1, IF n < 0 THEN 0 ELSE n)
                         \o fixed_length(g + 1)
    IN  \* contained_idx_sequence[len(contained_idx_sequence)]
        IF length = 0 /\ contained_indices # <<>>
        THEN [raised |-> "IndexError", indices |-> <<>>]
        ELSE [raised |-> "none", indices |-> fixed_length(1)]

----------------------------------------------------------------------------
(* Utils: sample_dict and get_expected_subsample_variety.  A frequency     *)
(* dict is a sequence of <<key, count>>; a quotient of two integers is     *)
(* kept exact as <<numerator, denominator>> (Python rounds it to a float). *)

\* sum(dictionary.values())
sum_values(dictionary) ==
    LET RECURSIVE sum_up_to(_)
        sum_up_to(i) == IF i = 0 THEN 0
                        ELSE sum_up_to(i - 1) + dictionary[i][2]
    IN  sum_up_to(Len(dictionary))

\* sample_dict whose draws alone decide
sample_dict_unforced(dictionary, sample_size, below) ==
    LET RECURSIVE tokens(_, _, _)
        tokens(i, v, st) ==
            IF i > Len(dictionary) THEN st
            ELSE IF v > dictionary[i][2] THEN tokens(i + 1, 1, st)
            ELSE LET k == dictionary[i][1]
                     taken == below[st.drawn + 1]
                     after ==
                         [new_dict |->
                              IF taken
                              THEN DictSet(st.new_dict, k,
                                       DictGetDefault(st.new_dict, k, 0) + 1)
                              ELSE st.new_dict,
                          num_to_sample |->
                              st.num_to_sample - (IF taken THEN 1 ELSE 0),
                          num_to_process |-> st.num_to_process - 1,
                          drawn |-> st.drawn + 1]
                 IN  IF after.num_to_sample = 0 THEN after
                     ELSE tokens(i, v + 1, after)
        final == tokens(1, 1, [new_dict |-> <<>>,
                               num_to_sample |-> sample_size,
                               num_to_process |-> sum_values(dictionary),
                               drawn |-> 0])
    IN  IF final.num_to_sample > 0
        THEN [raised |-> "ValueError", new_dict |-> <<>>]
        ELSE [raised |-> "none", new_dict |-> final.new_dict]

\* Utils.sample_dict(dictionary, sample_size); below[n] tells whether the
\* n-th value of random.random() is near 0 (TRUE) or near 1 (FALSE): a value
\* in [0, 1) can be below the ratio when the ratio is above 0, and can be
\* at or above it when the ratio is below 1
sample_dict(dictionary, sample_size, below) ==
    LET RECURSIVE tokens(_, _, _)
        \* "for (k, v) in iteritems(dictionary): for i in range(v):"
        tokens(i, v, st) ==
            IF i > Len(dictionary) THEN st
            ELSE IF v > dictionary[i][2] THEN tokens(i + 1, 1, st)
            ELSE LET k == dictionary[i][1]
                     taken ==
                         \/ st.num_to_sample > st.num_to_process
                         \/ /\ st.num_to_sample > 0
                            /\ \/ below[st.drawn + 1]
                               \/ st.num_to_sample = st.num_to_process
                     after ==
                         [new_dict |->
                              IF taken
                              THEN DictSet(st.new_dict, k,
                                       DictGetDefault(st.new_dict, k, 0) + 1)
                              ELSE st.new_dict,
                          num_to_sample |->
                              st.num_to_sample - (IF taken THEN 1 ELSE 0),
                          num_to_process |-> st.num_to_process - 1,
                          drawn |-> st.drawn + 1]
                 IN  IF after.num_to_sample = 0 THEN after
                     ELSE tokens(i, v + 1, after)
        final == tokens(1, 1, [new_dict |-> <<>>,
                               num_to_sample |-> sample_size,
                               num_to_process |-> sum_values(dictionary),
                               drawn |-> 0])
    IN  IF final.num_to_sample > 0
        THEN [raised |-> "ValueError", new_dict |-> <<>>]
        ELSE [raised |-> "none", new_dict |-> final.new_dict]

\* scipy's comb(n, k, exact=True)
binom(n, k) ==
    LET RECURSIVE product(_)
        \* n (n-1) ... (n-j+1) / j!, exact at every step
        product(j) == IF j = 0 THEN 1
                      ELSE (product(j - 1) * (n - j + 1)) \div j
    IN  IF k > n \/ k < 0 THEN 0 ELSE product(k)

\* _prob_no_occurrence that is 0 from sample_size - subsample_size on
_prob_no_occurrence_early(sample_size, subsample_size, sample_freq, num_subsamples) ==
    IF sample_freq >= sample_size - subsample_size
    THEN <<0, 1>>
    ELSE <<binom(sample_size - sample_freq, subsample_size), num_subsamples>>

\* Utils._prob_no_occurrence(sample_size, subsample_size, sample_freq,
\*                           num_subsamples)
_prob_no_occurrence(sample_size, subsample_size, sample_freq, num_subsamples) ==
    IF sample_freq > sample_size - subsample_size
    THEN <<0, 1>>
    ELSE <<binom(sample_size - sample_freq, subsample_size), num_subsamples>>

\* Utils.get_expected_subsample_variety(dictionary, subsample_size)
get_expected_subsample_variety(dictionary, subsample_size) ==
    LET sample_size == sum_values(dictionary)
        num_subsamples == binom(sample_size, subsample_size)
        minus(x, y) == IF x[2] = y[2] THEN <<x[1] - y[1], x[2]>>
                       ELSE <<x[1] * y[2] - y[1] * x[2], x[2] * y[2]>>
        RECURSIVE subtract(_, _)
        subtract(i, expected_variety) ==
            IF i > Len(dictionary) THEN expected_variety
            ELSE subtract(i + 1,
                     minus(expected_variety,
                           _prob_no_occurrence(sample_size, subsample_size,
                                               dictionary[i][2],
                                               num_subsamples)))
    IN  IF subsample_size > sample_size
        THEN [raised |-> "ValueError", value |-> <<0, 1>>]
        ELSE [raised |-> "none",
              value |-> subtract(1, <<Len(dictionary), 1>>)]

----------------------------------------------------------------------------
(* Segmenter: import_xml *)

\* re.finditer(tag_regex, content) for tag_regex = r'</?[^>]+?/?>': the
\* (start, end) of the matches; a match runs from a '<' to the first '>'
\* after it when there is at least one character between the two
find_tags(content) ==
    LET RECURSIVE scan(_)
        scan(pos) ==
            LET opens == {i \in pos..(Len(content) - 2) :
                             /\ content[i] = "<"
                             /\ content[i + 1] # ">"
                             /\ \E j \in (i + 2)..Len(content) :
                                    content[j] = ">"}
            IN  IF opens = {} THEN <<>>
                ELSE LET i == CHOOSE o \in opens : \A q \in opens : o <= q
                         j == CHOOSE c \in (i + 2)..Len(content) :
                                  /\ content[c] = ">"
                                  /\ \A q \in (i + 2)..(c - 1) :
                                         content[q] # ">"
                     IN  <<(<<i - 1, j>>)>> \o scan(j + 1)
    IN  scan(1)

\* the value None of _parse_xml_tag
NoTagDescription ==
    [is_element |-> FALSE, is_opening |-> FALSE, is_empty |-> FALSE,
     element |-> <<>>, attributes |-> {}, parsed |-> FALSE]

\* Segmenter._parse_xml_tag(tag); \w is a character that is no punctuation,
\* and attribute_regex finds no attribute in a tag without '=' and quotes
_parse_xml_tag(tag) ==
    LET word(c) == c \notin {"<", ">", "/", "!", "?", "-", " "}
        words == {i \in 1..Len(tag) : word(tag[i])}
        first == CHOOSE i \in words : \A q \in words : i <= q
        last == CHOOSE e \in first..Len(tag) :
                    /\ \A q \in first..e : word(tag[q])
                    /\ e = Len(tag) \/ ~word(tag[e + 1])
    IN  IF tag[2] = "!" \/ tag[2] = "?"
        THEN [NoTagDescription EXCEPT !.parsed = TRUE]
        ELSE IF words = {} THEN NoTagDescription
        ELSE [is_element |-> TRUE,
              is_opening |-> tag[2] # "/",
              is_empty |-> tag[Len(tag) - 1] = "/",
              element |-> SubSeq(tag, first, last),
              attributes |-> {},
              parsed |-> TRUE]

\* Segmenter.import_xml(segmentation, element, conditions=None,
\*                      import_element_as, label, import_annotations,
\*                      merge_duplicates, auto_number_as=None, remove_markup,
\*                      preserve_leaves); none_sorts_first is whether sorted()
\* orders an end of None before an int (Python 2) or raises TypeError
\* (Python 3)
import_xml(d, segmentation, element, import_element_as, label, import_annotations, merge_duplicates, remove_markup, preserve_leaves, none_sorts_first) ==
    LET name == SelectSeq(element, LAMBDA c : c \notin {"<", ">"})
        filter_segment(s) ==
            LET start == PyOr(s.start, 0)
                end == IF s.end = None
                       THEN Len(get_data(d, s.str_index).str)
                       ELSE s.end
            IN  start # end
        \* "For each occurrence of the specified xml tag in the content..."
        on_tag(st, old_segment, match) ==
            LET old_anno_copy ==
                    AnnUpdate(IF import_annotations
                              THEN old_segment.annotations ELSE {},
                              IF import_element_as # ""
                              THEN {<<import_element_as, name>>} ELSE {})
                old_str_index == old_segment.str_index
                old_start == PyOr(old_segment.start, 0)
                tag_start == old_start + match[1]
                tag_end == old_start + match[2]
                tag == PySlice(get_data(d, old_str_index).str,
                               tag_start, tag_end)
                tag_desc == _parse_xml_tag(tag)
                anno(attrs, index) == AnnUpdate(old_anno_copy, attrs[index])
                closed_at_tag ==
                    [index \in 1..Len(st.stack) |->
                        LET frame == st.stack[index]
                        IN  IF remove_markup
                            THEN IF frame[Len(frame)].str_index = old_str_index
                                 THEN [frame EXCEPT ![Len(frame)].end =
                                                        tag_start]
                                 ELSE Append(frame,
                                          Segment(old_str_index, 0, tag_start,
                                                  anno(st.attr_stack, index)))
                            ELSE IF frame[Len(frame)].str_index # old_str_index
                                 THEN Append(frame,
                                          Segment(old_str_index, 0, None,
                                                  anno(st.attr_stack, index)))
                                 ELSE frame]
                top == closed_at_tag[Len(closed_at_tag)]
                popped == IF remove_markup THEN top
                          ELSE [top EXCEPT ![Len(top)].end = tag_start]
                after ==
                    IF tag_desc.element = name /\ ~tag_desc.is_empty
                    THEN IF tag_desc.is_opening
                         THEN [st EXCEPT
                                 !.stack =
                                    Append(closed_at_tag,
                                        IF remove_markup THEN <<>>
                                        ELSE <<Segment(old_str_index, tag_end,
                                                   None,
                                                   AnnUpdate(old_anno_copy,
                                                       tag_desc.attributes))>>),
                                 !.attr_stack = Append(@, tag_desc.attributes)]
                         ELSE IF closed_at_tag # <<>>
                         THEN [st EXCEPT
                                 !.stack = SubSeq(closed_at_tag, 1,
                                                  Len(closed_at_tag) - 1),
                                 !.attr_stack = SubSeq(@, 1, Len(@) - 1),
                                 !.temp_segments =
                                    @ \o SelectSeq(popped, filter_segment)]
                         ELSE [st EXCEPT !.raised = "ValueError"]
                    ELSE [st EXCEPT !.stack = closed_at_tag]
            IN  IF ~tag_desc.parsed
                THEN \* tag_desc['element'] of None
                     [st EXCEPT !.raised = "TypeError"]
                ELSE IF after.raised # "none" \/ ~remove_markup THEN after
                ELSE [after EXCEPT
                        !.stack =
                           [index \in 1..Len(after.stack) |->
                               Append(after.stack[index],
                                   Segment(old_str_index, tag_end, None,
                                           anno(after.attr_stack, index)))]]
        RECURSIVE over_tags(_, _, _)
        over_tags(st, old_segment, matches) ==
            IF matches = <<>> \/ st.raised # "none" THEN st
            ELSE over_tags(on_tag(st, old_segment, Head(matches)),
                           old_segment, Tail(matches))
        RECURSIVE over_segments(_, _)
        over_segments(st, i) ==
            IF i > Len(segmentation.segs) \/ st.raised # "none" THEN st
            ELSE over_segments(
                     over_tags(st, segmentation.segs[i],
                               find_tags(get_content(d, segmentation.segs[i]))),
                     i + 1)
        scanned ==
            over_segments([stack |-> <<>>, attr_stack |-> <<>>,
                           temp_segments |-> <<>>, raised |-> "none"], 1)
        temp == scanned.temp_segments
        \* (seg.str_index, seg.start, seg.end) keys that compare None with int
        unorderable ==
            \E i, j \in 1..Len(temp) :
                /\ temp[i].str_index = temp[j].str_index
                /\ temp[i].start = temp[j].start
                /\ temp[i].end = None
                /\ temp[j].end # None
        new_segmentation ==
            extend([EmptySegmentation EXCEPT !.label = label],
                   sort_by_address(temp))
    IN  IF scanned.raised # "none"
        THEN [raised |-> scanned.raised, seg |-> EmptySegmentation]
        ELSE IF unorderable /\ ~none_sorts_first
        THEN [raised |-> "TypeError", seg |-> EmptySegmentation]
        ELSE IF scanned.stack # <<>>
        THEN [raised |-> "ValueError", seg |-> EmptySegmentation]
        ELSE [raised |-> "none",
              seg |-> IF merge_duplicates
                      THEN _merge_duplicate_segments(new_segmentation,
                                                     preserve_leaves)
                      ELSE new_segmentation]

----------------------------------------------------------------------------
(* Specification of the store under arbitrary set_data calls *)

StoreValues ==
    {Str(s) : s \in Strings} \cup {Ref(j) : j \in -1..MaxStore}

InitStore ==
    /\ data = <<>>
    /\ prevData = <<>>
    /\ segA = EmptySegmentation
    /\ segB = EmptySegmentation
    /\ op = "init"
    /\ args = <<>>
    /\ result = <<>>
    /\ raised = "none"

SetData(index, value_or_ref) ==
    LET r == set_data(data, index, value_or_ref)
    IN  /\ Len(r.data) <= MaxStore
        /\ data' = r.data
        /\ raised' = r.raised
        /\ prevData' = data
        /\ args' = [index |-> index, value_or_ref |-> value_or_ref]
        /\ result' = <<>>
        /\ op' = "set_data"
        /\ UNCHANGED <<segA, segB>>

NextStore ==
    \E index \in -1..MaxStore : \E v \in StoreValues : SetData(index, v)

SpecStore == InitStore /\ [][NextStore]_vars

----------------------------------------------------------------------------
(* C5: every redirect entry at index i holds an index j < i, and the entry *)
(* at j is a concrete string, never another redirect.  (The in-place       *)
(* replacement of a redirect accepts a forward reference.)                 *)
C5_RedirectsPointBackwardToConcrete ==
    \A i \in 1..Len(data) :
        data[i].isref =>
            /\ data[i].ref + 1 < i
            /\ data[i].ref + 1 \in 1..Len(data)
            /\ ~data[data[i].ref + 1].isref

(* C6: set_data(index, ref) with an integer ref raises when ref is out of  *)
(* bounds, when ref equals index, or when index designates an existing     *)
(* concrete entry; in each of these cases the store is left as it was.     *)
C6_Rejected ==
    /\ op = "set_data"
    /\ args.value_or_ref.isref
    /\ \/ args.value_or_ref.ref < 0
       \/ args.value_or_ref.ref >= Len(prevData)
       \/ args.value_or_ref.ref = args.index
       \/ /\ 0 <= args.index
          /\ args.index < Len(prevData)
          /\ ~prevData[args.index + 1].isref

C6_InvalidRedirectRaisesAndKeepsStore ==
    C6_Rejected => (raised = "IndexError" /\ data = prevData)

\* a redirect was refused at a concrete entry of a store that has redirects
C6_Witness ==
    /\ C6_Rejected
    /\ args.value_or_ref.ref \in 0..(Len(prevData) - 1)
    /\ args.value_or_ref.ref # args.index
    /\ raised = "IndexError"
    /\ \E i \in 1..Len(data) : data[i].isref

----------------------------------------------------------------------------
(* Segments over a store that holds a string, a redirect to it and a       *)
(* second string (the store left by set_data(-1, s), set_data(-1, 0),      *)
(* set_data(-1, "b")).                                                     *)

BaseString == [i \in 1..SegStrLen |-> IF i % 2 = 1 THEN "a" ELSE "b"]

SegStore == <<Str(BaseString), Ref(0), Str(<<"b">>)>>

\* length of the string a str_index resolves to
StringLength(d, str_index) == Len(get_data(d, str_index).str)

Offsets(d, i) == {None} \cup 0..StringLength(d, i)

\* every well-formed address into the store d (start <= end when both given)
Addresses(d) ==
    {a \in UNION {{<<i, b, e>> : b \in Offsets(d, i), e \in Offsets(d, i)}
                  : i \in 0..(Len(d) - 1)} :
        a[2] = None \/ a[3] = None \/ a[2] <= a[3]}

AnnotationChoices == {{}, {<<"k", "v">>}}

SegDomain(d) ==
    {Segment(a[1], a[2], a[3], ann) : a \in Addresses(d),
                                      ann \in AnnotationChoices}

\* the materialized range: absent start = 0, absent end = string length
MatStart(s) == IF s.start = None THEN 0 ELSE s.start
MatEnd(d, s) == IF s.end = None THEN StringLength(d, s.str_index) ELSE s.end

\* the two operands are drawn at the start; the operations apply to them
InitPair ==
    /\ data = SegStore
    /\ prevData = SegStore
    /\ segA = EmptySegmentation
    /\ segB = EmptySegmentation
    /\ op = "init"
    /\ args \in [self : SegDomain(SegStore), other : SegDomain(SegStore)]
    /\ result = <<>>
    /\ raised = "none"

Eq ==
    /\ op' = "eq"
    /\ result' = eq(args.self, args.other)
    /\ UNCHANGED <<data, prevData, segA, segB, args, raised>>

Contains ==
    /\ op' = "contains"
    /\ result' = contains(data, args.self, args.other)
    /\ UNCHANGED <<data, prevData, segA, segB, args, raised>>

NextPair == Eq \/ Contains

SpecPair == InitPair /\ [][NextPair]_vars

(* C7: two segments compare equal (==) iff they have the same str_index    *)
(* and the same materialized [start,end) range, where an absent start      *)
(* means 0 and an absent end means the length of the resolved string;      *)
(* annotations play no part.  (__eq__ normalises only the right operand.)  *)
C7_EqIffSameMaterializedAddress ==
    op = "eq" =>
        (result <=>
            /\ args.self.str_index = args.other.str_index
            /\ MatStart(args.self) = MatStart(args.other)
            /\ MatEnd(data, args.self) = MatEnd(data, args.other))

(* C8 as stated: s.contains(o) is true iff s and o refer to the same       *)
(* resolved backing string and s's materialized range covers o's.          *)
C8_ContainsIffSameResolvedStringAndCovers ==
    op = "contains" =>
        (result <=>
            /\ get_real_str_index(data, args.self)
                   = get_real_str_index(data, args.other)
            /\ MatStart(args.self) <= MatStart(args.other)
            /\ MatEnd(data, args.other) <= MatEnd(data, args.self))

(* C8 amended: s.contains(o) is true iff s and o have the same str_index   *)
(* and s's range covers o's (s.start <= o.start and o.end <= s.end), where *)
(* an absent start means 0 and an end that is absent or 0 means the        *)
(* length of the string.                                                   *)
C8_ContainsIffSameStrIndexAndCovers ==
    op = "contains" =>
        (result <=>
            /\ args.self.str_index = args.other.str_index
            /\ PyOr(args.self.start, 0) <= PyOr(args.other.start, 0)
            /\ PyOr(args.other.end, StringLength(data, args.other.str_index))
                   <= PyOr(args.self.end,
                           StringLength(data, args.self.str_index)))

\* a segment with open ends was found to contain a proper sub-range of a
\* string reached through a redirect
C8_Witness ==
    /\ op = "contains"
    /\ result
    /\ data[args.self.str_index + 1].isref
    /\ args.self.start = None
    /\ args.self.end = None
    /\ args.other.start = 1
    /\ args.other.end = SegStrLen

----------------------------------------------------------------------------
(* A segmentation built by the constructor, append and extend, then        *)
(* queried by a segment or sorted.  The queries leave the segmentation as  *)
(* it is, so they are explored from every segmentation and end the run.    *)

MaxUnits == 3      \* largest number of segments in the segmentation

\* the addresses the segments of the segmentation are drawn from: open
\* starts and ends, an empty segment at offset 0, overlapping ranges, on
\* the string (entry 0) and on the redirect to it (entry 1)
UnitAddresses ==
    {<<0, None, None>>, <<0, 0, 0>>, <<0, 0, 1>>, <<0, 0, SegStrLen>>,
     <<0, 1, SegStrLen>>, <<1, None, None>>, <<1, 0, 1>>}

UnitDomain == {Segment(a[1], a[2], a[3], {}) : a \in UnitAddresses}

UnitLists == SeqsUpTo(UnitDomain, 2) \ {<<>>}

\* the querying segment: any address on the string, two on the redirect
\* to it, one on a string the segmentation has no segment of
QueryAddresses ==
    {a \in Addresses(SegStore) : a[1] = 0}
        \cup {<<1, None, None>>, <<1, 0, 1>>, <<2, None, None>>}

QueryDomain == {Segment(a[1], a[2], a[3], {}) : a \in QueryAddresses}

BuildOps == {"init", "Segmentation", "append", "extend"}

InitUnits ==
    /\ data = SegStore
    /\ prevData = SegStore
    /\ segA = EmptySegmentation
    /\ segB = EmptySegmentation
    /\ op = "init"
    /\ args = <<>>
    /\ result = <<>>
    /\ raised = "none"

Built(S, name) ==
    /\ Len(S.segs) <= MaxUnits
    /\ segB' = S
    /\ op' = name
    /\ UNCHANGED <<data, prevData, segA, args, result, raised>>

UnitsConstruct(segments) ==
    /\ op = "init"
    /\ Built(SegmentationFromList(segments, "segmented_data"), "Segmentation")

UnitsAppend(segment) ==
    /\ op \in BuildOps
    /\ Built(append(segB, segment), "append")

UnitsExtend(segments) ==
    /\ op \in BuildOps
    /\ Built(extend(segB, segments), "extend")

GetContainedSegments(self) ==
    /\ op \in BuildOps
    /\ op' = "get_contained_segments"
    /\ args' = [self |-> self]
    /\ result' = get_contained_segments(data, self, segB)
    /\ UNCHANGED <<data, prevData, segA, segB, raised>>

GetContainedSegmentIndices(self) ==
    /\ op \in BuildOps
    /\ op' = "get_contained_segment_indices"
    /\ args' = [self |-> self]
    /\ result' = get_contained_segment_indices(data, self, segB)
    /\ UNCHANGED <<data, prevData, segA, segB, raised>>

Sort ==
    /\ op \in BuildOps
    /\ op' = "_sort"
    /\ args' = <<>>
    /\ result' = [first |-> _sort(segB), second |-> _sort(_sort(segB).seg)]
    /\ UNCHANGED <<data, prevData, segA, segB, raised>>

NextUnits ==
    \/ \E segments \in UnitLists : UnitsConstruct(segments)
    \/ \E segment \in UnitDomain : UnitsAppend(segment)
    \/ \E segments \in UnitLists : UnitsExtend(segments)
    \/ \E self \in QueryDomain : GetContainedSegments(self)
    \/ \E self \in QueryDomain : GetContainedSegmentIndices(self)
    \/ Sort

SpecUnits == InitUnits /\ [][NextUnits]_vars

\* the positions (from 0) of a sequence
Positions(seq) == [i \in 1..Len(seq) |-> i - 1]

\* u's resolved string is s's and u's materialized range lies within s's
LiesWithin(d, s, u) ==
    /\ get_real_str_index(d, s) = get_real_str_index(d, u)
    /\ MatStart(s) <= MatStart(u)
    /\ MatEnd(d, u) <= MatEnd(d, s)

\* the same with the str_index itself and with `end or string_length`
LiesWithinByStrIndex(d, s, u) ==
    /\ s.str_index = u.str_index
    /\ PyOr(s.start, 0) <= PyOr(u.start, 0)
    /\ PyOr(u.end, StringLength(d, u.str_index))
           <= PyOr(s.end, StringLength(d, s.str_index))

\* the segments of each str_index form one run, in ascending start order
RunsInStartOrder(S) ==
    \A i \in 1..Len(S.segs) : \A j \in (i + 1)..Len(S.segs) :
        S.segs[i].str_index = S.segs[j].str_index =>
            /\ \A m \in i..j : S.segs[m].str_index = S.segs[i].str_index
            /\ PyOr(S.segs[i].start, 0) <= PyOr(S.segs[j].start, 0)

(* C1 as stated: for a segment A[i] of a sorted segmentation A (any        *)
(* segment is one: A = [s]) and any segmentation B, get_contained_segments *)
(* returns exactly the sub-sequence of B made of the segments whose        *)
(* resolved string is A[i]'s and whose range lies within A[i]'s, and       *)
(* get_contained_segment_indices returns exactly their positions.          *)
C1_ContainedSegmentsOfAnySegmentation ==
    /\ op = "get_contained_segments" =>
           LET Within(u) == LiesWithin(data, args.self, u)
           IN  result = SelectSeq(segB.segs, Within)
    /\ op = "get_contained_segment_indices" =>
           LET WithinAt(p) == LiesWithin(data, args.self, segB.segs[p + 1])
           IN  result = SelectSeq(Positions(segB.segs), WithinAt)

(* C1 amended: for any segment s and any segmentation B in which the       *)
(* segments of each str_index form one contiguous run in ascending start   *)
(* order, get_contained_segments returns exactly the sub-sequence of B     *)
(* made of the segments that have s's str_index and whose range lies       *)
(* within s's (absent start = 0, absent or zero end = string length), and  *)
(* get_contained_segment_indices returns exactly their positions.          *)
C1_ContainedSegmentsOfRuns ==
    RunsInStartOrder(segB) =>
        /\ op = "get_contained_segments" =>
               LET Within(u) == LiesWithinByStrIndex(data, args.self, u)
               IN  result = SelectSeq(segB.segs, Within)
        /\ op = "get_contained_segment_indices" =>
               LET WithinAt(p) ==
                       LiesWithinByStrIndex(data, args.self, segB.segs[p + 1])
               IN  result = SelectSeq(Positions(segB.segs), WithinAt)

\* a query over a run of its own str_index that returns the first segment
\* and leaves out a later one that starts inside its range but ends outside
C1_Witness ==
    /\ op = "get_contained_segment_indices"
    /\ RunsInStartOrder(segB)
    /\ Len(segB.segs) = MaxUnits
    /\ \A u \in Range(segB.segs) : u.str_index = args.self.str_index
    /\ result = <<0>>
    /\ \E u \in Range(segB.segs) :
           /\ PyOr(args.self.start, 0) <= PyOr(u.start, 0)
           /\ PyOr(u.start, 0) < PyOr(args.self.end, SegStrLen)
           /\ PyOr(u.end, SegStrLen) > PyOr(args.self.end, SegStrLen)

(* C9: _sort returns a segmentation holding the same segments as S in      *)
(* ascending (str_index, start, end) order, segments of equal key kept in  *)
(* their original relative order; when S is already in that order the      *)
(* returned object is S itself.                                            *)
AddressLeq(a, b) ==
    \/ a[1] < b[1]
    \/ a[1] = b[1] /\ a[2] < b[2]
    \/ a[1] = b[1] /\ a[2] = b[2] /\ a[3] <= b[3]

InAddressOrder(segs) ==
    \A i \in 1..Len(segs) : \A j \in (i + 1)..Len(segs) :
        AddressLeq(Address(segs[i]), Address(segs[j]))

\* out is segs rearranged by a permutation that keeps equal keys in order
StablePermutation(segs, out) ==
    /\ Len(out) = Len(segs)
    /\ \A a \in {Address(x) : x \in Range(segs) \cup Range(out)} :
           LET HasKey(x) == Address(x) = a
           IN  SelectSeq(out, HasKey) = SelectSeq(segs, HasKey)

C9_SortReturnsStableAddressOrder ==
    op = "_sort" =>
        /\ InAddressOrder(result.first.seg.segs)
        /\ StablePermutation(segB.segs, result.first.seg.segs)
        /\ InAddressOrder(segB.segs) => result.first.is_self

(* C10: _sort is idempotent: S._sort()._sort() has the same sequence of    *)
(* segments as S._sort().                                                  *)
C10_SortIdempotent ==
    op = "_sort" => result.second.seg.segs = result.first.seg.segs

\* a segmentation that _sort had to rebuild, into a different sequence
C10_Witness ==
    /\ op = "_sort"
    /\ ~result.first.is_self
    /\ result.first.seg.segs # segB.segs
    /\ Len(result.first.seg.segs) >= 2

----------------------------------------------------------------------------
(* concatenate applied to one or two segmentations: segB is built by the   *)
(* constructor, append and extend, segA is one of a few fixed ones.        *)

ConcatAddresses ==
    {<<0, 0, 1>>, <<0, 0, 2>>, <<0, 1, 2>>, <<1, 0, 1>>}

ConcatDomain ==
    {Segment(a[1], a[2], a[3], {}) : a \in ConcatAddresses}
        \cup {Segment(0, 0, 1, {<<"k", "v">>})}

ConcatLists == SeqsUpTo(ConcatDomain, 2) \ {<<>>}

ConcatOthers ==
    {SegmentationFromList(l, "a") :
        l \in {<<Segment(0, 0, 2, {}), Segment(0, 1, 2, {})>>,
               <<Segment(1, 0, 1, {}), Segment(0, 0, 1, {})>>,
               <<Segment(0, 0, 1, {<<"k", "w">>}), Segment(1, 1, 2, {})>>}}

\* copy_annotations, import_labels_as, auto_number_as
ConcatAnnotationOptions ==
    {<<TRUE, "component_label", "">>, <<FALSE, "", "">>,
     <<TRUE, "", "num">>, <<FALSE, "component_label", "num">>}

ConcatOptions ==
    {[label |-> "my_concatenation", copy_annotations |-> a[1],
      import_labels_as |-> a[2], sort |-> s, auto_number_as |-> a[3],
      merge_duplicates |-> m] :
        a \in ConcatAnnotationOptions, s \in BOOLEAN, m \in BOOLEAN}

InitConcat ==
    /\ data = SegStore
    /\ prevData = SegStore
    /\ segA \in ConcatOthers
    /\ segB = EmptySegmentation
    /\ op = "init"
    /\ args = <<>>
    /\ result = <<>>
    /\ raised = "none"

Concatenate(segmentations, o) ==
    /\ op \in BuildOps \ {"init"}
    /\ op' = "concatenate"
    /\ args' = [segmentations |-> segmentations, o |-> o]
    /\ result' = concatenate(segmentations, o)
    /\ UNCHANGED <<data, prevData, segA, segB, raised>>

NextConcat ==
    \/ \E segments \in ConcatLists : UnitsConstruct(segments)
    \/ \E segment \in ConcatDomain : UnitsAppend(segment)
    \/ \E segments \in ConcatLists : UnitsExtend(segments)
    \/ \E o \in ConcatOptions :
           \E segmentations \in {<<segB>>, <<segB, segA>>, <<segA, segB>>} :
               Concatenate(segmentations, o)

SpecConcat == InitConcat /\ [][NextConcat]_vars

\* the segments of all the inputs, input by input
RECURSIVE AllSegments(_)
AllSegments(segmentations) ==
    IF segmentations = <<>> THEN <<>>
    ELSE Head(segmentations).segs \o AllSegments(Tail(segmentations))

\* the number of elements of seq that satisfy Test
Count(seq, Test(_)) == Len(SelectSeq(seq, Test))

\* a segment without the annotations concatenate adds
Stripped(s, o) ==
    [s EXCEPT !.annotations =
        IF o.copy_annotations
        THEN {p \in @ : p[1] \notin {o.import_labels_as, o.auto_number_as}}
        ELSE {}]

\* out has every segment of segs exactly once
EverySegmentOnce(segs, out, o) ==
    /\ Len(out) = Len(segs)
    /\ \A x \in {Stripped(s, o) : s \in Range(segs)} :
           LET Same(s) == Stripped(s, o) = x
           IN  Count(out, Same) = Count(segs, Same)

\* the str_index values of segs, each once, in order of first appearance
FirstAppearance(segs) ==
    unique_keys([i \in 1..Len(segs) |-> segs[i].str_index], <<>>)

\* out is made of one group per str_index, the groups in the given order
GroupedAs(out, order) ==
    /\ FirstAppearance(out) = order
    /\ \A i \in 1..Len(out) : \A j \in (i + 1)..Len(out) :
           out[i].str_index = out[j].str_index =>
               \A m \in i..j : out[m].str_index = out[i].str_index

\* ascending (start, end) order within each str_index
AscendingWithinStrIndex(segs) ==
    \A i \in 1..Len(segs) : \A j \in (i + 1)..Len(segs) :
        segs[i].str_index = segs[j].str_index => ~TupleLess(segs[j], segs[i])

\* the segments of each str_index form one contiguous run
RunsContiguous(segs) ==
    \A i \in 1..Len(segs) : \A j \in (i + 1)..Len(segs) :
        segs[i].str_index = segs[j].str_index =>
            \A m \in i..j : segs[m].str_index = segs[i].str_index

----------------------------------------------------------------------------
(* recode applied to a segmentation over a store of two strings and a      *)
(* redirect, then to what it returned, while the store stays within its    *)
(* bound.                                                                  *)

MaxRecodeStore == 6     \* largest number of entries recode grows the store to
MaxRecodeUnits == 3     \* largest number of segments of the first input

RecodeStore == <<Str(<<"a", "b", "a">>), Ref(0), Str(<<"b">>)>>

RecodeDomain ==
    {Segment(0, 0, 1, {}), Segment(0, 1, 2, {<<"k", "v">>}),
     Segment(0, 2, 3, {}), Segment(1, None, None, {}),
     Segment(2, None, None, {})}

RecodeInputs ==
    {SegmentationFromList(l, "segmented_data") :
        l \in SeqsUpTo(RecodeDomain, MaxRecodeUnits) \ {<<>>}}

\* lists of (character the regex matches, replacement string)
Substitutions ==
    {<<>>, <<<<"b", <<"f">>>>>>, <<<<"b", <<>>>>>>,
     <<<<"a", <<"b", "b">>>>, <<"f", <<"a">>>>>>}

InitRecode ==
    /\ data = RecodeStore
    /\ prevData = RecodeStore
    /\ segA = EmptySegmentation
    /\ segB \in RecodeInputs
    /\ op = "init"
    /\ args = <<>>
    /\ result = <<>>
    /\ raised = "none"

Recode(substitutions, case, copy_annotations) ==
    /\ raised = "none"
    /\ \E r \in {recode(data, segB, substitutions, case, "my_recoded_data",
                        copy_annotations)} :
        /\ Len(r.data) <= MaxRecodeStore
        /\ op' = "recode"
        /\ args' = [segmentation |-> segB, substitutions |-> substitutions,
                    case |-> case, copy_annotations |-> copy_annotations]
        /\ prevData' = data
        /\ data' = r.data
        /\ raised' = r.raised
        /\ result' = [seg |-> r.seg, total_num_subs |-> r.total_num_subs]
        /\ segB' = IF r.raised = "none" THEN r.seg ELSE segB
        /\ UNCHANGED segA

NextRecode ==
    \E substitutions \in Substitutions, case \in {"", "upper"},
       copy_annotations \in BOOLEAN :
        Recode(substitutions, case, copy_annotations)

SpecRecode == InitRecode /\ [][NextRecode]_vars

\* the text recode makes of the i-th segment of its input
RecodedText(i) ==
    recoded_text_of(get_content(prevData, args.segmentation.segs[i]),
                    args.substitutions, args.case, 0).text

(* C4: recode returns one output segment per input segment, in the same    *)
(* order: if the recoded text of the i-th input segment equals its         *)
(* original content, the i-th output segment has the same start and end    *)
(* and the same real string index as the input segment; if the text        *)
(* changed, the i-th output segment points to a newly appended store entry *)
(* whose content is the recoded text.                                      *)
C4_RecodeOutputSegments ==
    (op = "recode" /\ raised = "none") =>
        /\ Len(result.seg.segs) = Len(args.segmentation.segs)
        /\ \A i \in 1..Len(args.segmentation.segs) :
               LET in == args.segmentation.segs[i]
                   out == result.seg.segs[i]
               IN  IF RecodedText(i) = get_content(prevData, in)
                   THEN /\ out.start = in.start
                        /\ out.end = in.end
                        /\ get_real_str_index(data, out)
                               = get_real_str_index(prevData, in)
                   ELSE /\ out.str_index >= Len(prevData)
                        /\ out.str_index < Len(data)
                        /\ ~data[out.str_index + 1].isref
                        /\ data[out.str_index + 1].str = RecodedText(i)
                        /\ get_content(data, out) = RecodedText(i)

\* an unchanged segment, a recoded one and an unchanged one of the same
\* string, which is given a redirect entry appended after the recoded text
C4_Witness ==
    /\ op = "recode"
    /\ raised = "none"
    /\ Len(args.segmentation.segs) = 3
    /\ RecodedText(1) = get_content(prevData, args.segmentation.segs[1])
    /\ RecodedText(2) # get_content(prevData, args.segmentation.segs[2])
    /\ RecodedText(3) = get_content(prevData, args.segmentation.segs[3])
    /\ result.seg.segs[3].str_index = Len(data) - 1
    /\ data[Len(data)].isref
    /\ result.seg.segs[3].str_index # args.segmentation.segs[3].str_index

----------------------------------------------------------------------------
(* count_in_context applied to a unit segmentation built by the            *)
(* constructor, append and extend (segB) and to one of a few context       *)
(* segmentations (segA), or to no context segmentation.                    *)

CountStore == <<Str(<<"a", "b", "a">>), Ref(0)>>

CountUnitDomain ==
    {Segment(0, 0, 1, {}), Segment(0, 1, 2, {<<"k", "v">>}),
     Segment(0, 2, 3, {}), Segment(0, 0, 2, {}), Segment(0, None, 1, {}),
     Segment(1, 0, 1, {})}

CountUnitLists == SeqsUpTo(CountUnitDomain, 2) \ {<<>>}

CountContexts ==
    {SegmentationFromList(l, "contexts") :
        l \in {<<Segment(0, None, None, {})>>,
               <<Segment(0, 0, 2, {}), Segment(0, 1, 3, {})>>,
               <<Segment(0, 0, 1, {}), Segment(0, 2, 3, {})>>,
               <<Segment(0, 0, 2, {}), Segment(1, None, 2, {<<"k", "w">>})>>}}

InitCount ==
    /\ data = CountStore
    /\ prevData = CountStore
    /\ segA \in CountContexts
    /\ segB = EmptySegmentation
    /\ op = "init"
    /\ args = <<>>
    /\ result = <<>>
    /\ raised = "none"

Counted(units, contexts, r) ==
    /\ op' = "count_in_context"
    /\ args' = [units |-> units, contexts |-> contexts]
    /\ result' = r.table
    /\ raised' = r.raised
    /\ UNCHANGED <<data, prevData, segA, segB>>

CountInContext(unit_annotation_key, context_annotation_key, merge) ==
    LET units == [segmentation |-> segB,
                  annotation_key |-> unit_annotation_key, seq_length |-> 1]
        contexts == [segmentation |-> segA,
                     annotation_key |-> context_annotation_key,
                     merge |-> merge]
    IN  /\ op \in BuildOps \ {"init"}
        /\ \E r \in {count_in_context(data, units, contexts, <<>>)} :
               Counted(units, contexts, r)

CountGlobally(unit_annotation_key) ==
    LET units == [segmentation |-> segB,
                  annotation_key |-> unit_annotation_key, seq_length |-> 1]
        contexts == [segmentation |-> NoSegmentation, annotation_key |-> "",
                     merge |-> FALSE]
        unit_types == {token_type(data, u, unit_annotation_key) :
                          u \in Range(segB.segs)}
    IN  /\ op \in BuildOps \ {"init"}
        /\ \E set_order \in SetOrders(unit_types) :
               \E r \in {count_in_context(data, units, contexts, set_order)} :
                   Counted(units, contexts, r)

NextCount ==
    \/ \E segments \in CountUnitLists : UnitsConstruct(segments)
    \/ \E segment \in CountUnitDomain : UnitsAppend(segment)
    \/ \E segments \in CountUnitLists : UnitsExtend(segments)
    \/ \E uk \in {"", "k"}, ck \in {"", "k"}, merge \in BOOLEAN :
           CountInContext(uk, ck, merge)
    \/ \E uk \in {"", "k"} : CountGlobally(uk)

SpecCount == InitCount /\ [][NextCount]_vars

\* seq_length 1, no annotation keys, merge false
PlainCount ==
    /\ op = "count_in_context"
    /\ raised = "none"
    /\ args.units.seq_length = 1
    /\ args.units.annotation_key = ""
    /\ args.contexts.annotation_key = ""
    /\ ~args.contexts.merge

Contents(S) == {get_content(data, s) : s \in Range(S.segs)}

\* the pairs (context segment with content c, unit segment with content u)
\* such that the unit segment is contained in the context segment
ContainedPairs(c, u) ==
    {pair \in (1..Len(args.contexts.segmentation.segs))
                  \X (1..Len(args.units.segmentation.segs)) :
        LET context == args.contexts.segmentation.segs[pair[1]]
            unit == args.units.segmentation.segs[pair[2]]
        IN  /\ get_content(data, context) = c
            /\ get_content(data, unit) = u
            /\ contains(data, context, unit)}

Occurrences(u) ==
    {j \in 1..Len(args.units.segmentation.segs) :
        get_content(data, args.units.segmentation.segs[j]) = u}

\* the cells of the table when contexts are given
CellsCountContainedPairs ==
    \A c \in Contents(args.contexts.segmentation) :
        \A u \in Contents(args.units.segmentation) :
            get(result, c, u) = Cardinality(ContainedPairs(c, u))

\* the table when no contexts are given
GlobalRowCountsOccurrences ==
    /\ result.row_ids = <<"__global__">>
    /\ \A u \in Contents(args.units.segmentation) :
           get(result, "__global__", u) = Cardinality(Occurrences(u))

C2_WitnessGlobal ==
    /\ PlainCount
    /\ args.contexts.segmentation = NoSegmentation
    /\ \E u \in Contents(args.units.segmentation) :
           get(result, "__global__", u) = 2
    /\ Len(result.col_ids) = 2

----------------------------------------------------------------------------
(* The conversions of an IntPivotCrosstab built from a dictionary of       *)
(* counts: to_flat().to_pivot() and to_weighted_flat().to_pivot().         *)

MaxCount == 2

\* the tables of up to 2 rows and 2 columns, a row id being also a col
\* id, made from the dictionary {(row_id, col_id): count} of all the cells
PivotTables ==
    LET RowIdLists == {<<"a">>, <<"b">>, <<"a", "b">>, <<"b", "a">>}
        ColIdLists == {<<"b">>, <<"c">>, <<"b", "c">>, <<"c", "b">>}
        CellDict(row_ids, col_ids, count) ==
            [n \in 1..(Len(row_ids) * Len(col_ids)) |->
                LET i == ((n - 1) \div Len(col_ids)) + 1
                    j == ((n - 1) % Len(col_ids)) + 1
                IN  <<<<row_ids[i], col_ids[j]>>, count[<<i, j>>]>>]
    IN  {Table(row_ids, col_ids,
               CellDict(row_ids, col_ids, count), missing).table :
            row_ids \in RowIdLists, col_ids \in ColIdLists,
            count \in [(1..2) \X (1..2) -> 0..MaxCount],
            missing \in {0, None}}

InitTable ==
    /\ data = <<>>
    /\ prevData = <<>>
    /\ segA = EmptySegmentation
    /\ segB = EmptySegmentation
    /\ op = "init"
    /\ args \in PivotTables
    /\ result = NoTable
    /\ raised = "none"

Converted(name, r) ==
    /\ op = "init"
    /\ op' = name
    /\ result' = r.table
    /\ raised' = r.raised
    /\ UNCHANGED <<data, prevData, segA, segB, args>>

ToFlatToPivot == Converted("to_flat.to_pivot", flat_to_pivot(to_flat(args)))

ToWeightedFlatToPivot ==
    Converted("to_weighted_flat.to_pivot",
              weighted_to_pivot(to_weighted_flat(args)))

NextTable ==
    \/ ToFlatToPivot
    \/ ToWeightedFlatToPivot

SpecTable == InitTable /\ [][NextTable]_vars

\* T has no cell equal to 0
NoZeroCell(T) ==
    \A r \in Range(T.row_ids), c \in Range(T.col_ids) :
        get_missing(T, r, c, 0) # 0

\* get(r, c) is the same in both tables for every row id and col id of T
CellWiseEqual(T, U) ==
    \A r \in Range(T.row_ids), c \in Range(T.col_ids) :
        get(U, r, c) = get(T, r, c)

(* C11: for an IntPivotCrosstab T without zero cells,                      *)
(* T.to_flat().to_pivot() returns a table whose get(r, c) equals           *)
(* T.get(r, c) for every row id r and col id c of T.                       *)
C11_FlatRoundTrip ==
    (op = "to_flat.to_pivot" /\ NoZeroCell(args)) =>
        raised = "none" /\ CellWiseEqual(args, result)

(* C12: for any IntPivotCrosstab T, T.to_weighted_flat().to_pivot()        *)
(* returns a table whose get(r, c) equals T.get(r, c) for every row id r   *)
(* and col id c of T, single-row tables included.                          *)
C12_WeightedFlatRoundTrip ==
    op = "to_weighted_flat.to_pivot" =>
        raised = "none" /\ CellWiseEqual(args, result)

\* a single-row table with a zero cell and a cell of MaxCount, the row
\* id being also a col id
C12_Witness ==
    /\ op = "to_weighted_flat.to_pivot"
    /\ args.row_ids = <<"b">>
    /\ args.col_ids = <<"c", "b">>
    /\ get(args, "b", "c") = MaxCount
    /\ get_missing(args, "b", "b", 0) = 0
    /\ args.missing = None
    /\ result.col_ids = <<"c">>
    /\ get(result, "b", "c") = MaxCount

----------------------------------------------------------------------------
(* cooc_in_window (and count_in_window) applied to a unit segmentation     *)
(* built by the constructor, append and extend (segB).                     *)

InitWindow ==
    /\ data = CountStore
    /\ prevData = CountStore
    /\ segA = EmptySegmentation
    /\ segB = EmptySegmentation
    /\ op = "init"
    /\ args = <<>>
    /\ result = <<>>
    /\ raised = "none"

\* the types of the units of segB
UnitTypes(unit_annotation_key) ==
    {token_type(data, u, unit_annotation_key) : u \in Range(segB.segs)}

Windowed(name, unit_annotation_key, window_size, r) ==
    /\ op' = name
    /\ args' = [units |-> [segmentation |-> segB,
                           annotation_key |-> unit_annotation_key,
                           seq_length |-> 1],
                window_size |-> window_size]
    /\ result' = r.table
    /\ raised' = r.raised
    /\ UNCHANGED <<data, prevData, segA, segB>>

CountInWindow(unit_annotation_key, window_size) ==
    LET units == [segmentation |-> segB,
                  annotation_key |-> unit_annotation_key, seq_length |-> 1]
    IN  /\ op \in BuildOps \ {"init"}
        /\ \E set_order \in SetOrders(UnitTypes(unit_annotation_key)) :
               \E r \in {count_in_window(data, units, window_size, set_order)} :
                   Windowed("count_in_window", unit_annotation_key,
                            window_size, r)

CoocInWindow(unit_annotation_key, window_size) ==
    LET units == [segmentation |-> segB,
                  annotation_key |-> unit_annotation_key, seq_length |-> 1]
    IN  /\ op \in BuildOps \ {"init"}
        /\ \E set_order \in SetOrders(UnitTypes(unit_annotation_key)) :
               \E r \in {cooc_in_window(data, units, window_size, set_order)} :
                   Windowed("cooc_in_window", unit_annotation_key,
                            window_size, r)

NextWindow ==
    \/ \E segments \in CountUnitLists : UnitsConstruct(segments)
    \/ \E segment \in CountUnitDomain : UnitsAppend(segment)
    \/ \E segments \in CountUnitLists : UnitsExtend(segments)
    \/ \E uk \in {"", "k"}, window_size \in 1..MaxUnits :
           CoocInWindow(uk, window_size)

SpecWindow == InitWindow /\ [][NextWindow]_vars

\* the type of the unit at a position of the unit segmentation of the call
UnitTypeAt(j) ==
    token_type(data, args.units.segmentation.segs[j],
               args.units.annotation_key)

\* the windows (by their first position) in which a unit of type u occurs
WindowsWith(u) ==
    {w \in 1..(Len(args.units.segmentation.segs) - args.window_size + 1) :
        \E j \in w..(w + args.window_size - 1) : UnitTypeAt(j) = u}

(* C13: in the table returned by cooc_in_window(units, W), the diagonal    *)
(* entry (u, u) is the number of windows in which u occurs at least once,  *)
(* and the off-diagonal entry (u, v) is the number of windows that contain *)
(* both u and v.                                                           *)
C13_CoocInWindowCountsWindows ==
    (op = "cooc_in_window"
        /\ Len(args.units.segmentation.segs) >= args.window_size) =>
        /\ raised = "none"
        /\ \A j, k \in 1..Len(args.units.segmentation.segs) :
               get_missing(result, UnitTypeAt(j), UnitTypeAt(k), 0)
                   = Cardinality(WindowsWith(UnitTypeAt(j))
                                     \cap WindowsWith(UnitTypeAt(k)))

----------------------------------------------------------------------------
(* cooc_in_context applied to a unit segmentation built by the             *)
(* constructor, append and extend (segB), to one of a few context          *)
(* segmentations (segA) and to one of a few second unit segmentations, or  *)
(* to none.                                                                *)

CoocContexts ==
    {SegmentationFromList(l, "contexts") :
        l \in {<<Segment(0, 0, 1, {}), Segment(0, 1, 2, {}),
                 Segment(0, 2, 3, {})>>,
               <<Segment(0, 0, 2, {}), Segment(0, 1, 3, {})>>}}

CoocUnits2 ==
    {NoSegmentation}
        \cup {SegmentationFromList(l, "units2") :
                 l \in {<<Segment(0, 1, 2, {}), Segment(0, 2, 3, {})>>,
                        <<Segment(0, 0, 1, {}), Segment(0, 1, 2, {})>>,
                        <<Segment(0, 0, 1, {<<"k", "v">>})>>}}

InitCooc ==
    /\ data = CountStore
    /\ prevData = CountStore
    /\ segA \in CoocContexts
    /\ segB = EmptySegmentation
    /\ op = "init"
    /\ args \in {[units2 |-> [segmentation |-> S, annotation_key |-> "",
                              seq_length |-> 1]] : S \in CoocUnits2}
    /\ result = <<>>
    /\ raised = "none"

CoocInContext(unit_annotation_key) ==
    LET units == [segmentation |-> segB,
                  annotation_key |-> unit_annotation_key, seq_length |-> 1]
        contexts == [segmentation |-> segA, annotation_key |-> "",
                     merge |-> FALSE]
    IN  /\ op \in BuildOps \ {"init"}
        /\ \E r \in {cooc_in_context(data, units, contexts, args.units2)} :
               /\ op' = "cooc_in_context"
               /\ args' = [units |-> units, contexts |-> contexts,
                           units2 |-> args.units2]
               /\ result' = r.table
               /\ raised' = r.raised
               /\ UNCHANGED <<data, prevData, segA, segB>>

NextCooc ==
    \/ \E segments \in CountUnitLists : UnitsConstruct(segments)
    \/ \E segment \in CountUnitDomain : UnitsAppend(segment)
    \/ \E segments \in CountUnitLists : UnitsExtend(segments)
    \/ \E uk \in {"", "k"} : CoocInContext(uk)

SpecCooc == InitCooc /\ [][NextCooc]_vars

\* the context types that are rows of both count tables and whose row has
\* a count for u1 in the table of units and for u2 in the table of units2
ContextTypesWithBoth(u2, u1) ==
    LET contingency ==
            count_in_context(data, args.units, args.contexts, <<>>).table
        contingency2 ==
            count_in_context(data, args.units2, args.contexts, <<>>).table
    IN  {c \in Range(contingency.row_ids) \cap Range(contingency2.row_ids) :
            /\ get(contingency, c, u1) > 0
            /\ get(contingency2, c, u2) > 0}

(* C14: in the table returned by cooc_in_context(units, contexts, units2)  *)
(* with units2 given, the entry at row u2, column u1 is the number of      *)
(* context types, among those that are rows of both count tables, that     *)
(* contain at least one u2 and at least one u1.                            *)
C14_CoocInContextCountsContextTypes ==
    (op = "cooc_in_context" /\ args.units2 # NoUnits /\ raised = "none") =>
        \A u2 \in Range(result.row_ids), u1 \in Range(result.col_ids) :
            get_missing(result, u2, u1, 0)
                = Cardinality(ContextTypesWithBoth(u2, u1))

----------------------------------------------------------------------------
(* The axes of the tables of count_in_context and count_in_window, for     *)
(* the unit segmentations of the count_in_context section and those of    *)
(* its context segmentations that start with a segment of two characters. *)

InitAxes ==
    /\ InitCount
    /\ Len(segA.segs) = 2
    /\ segA.segs[1].end = 2

NextAxes ==
    \/ \E segments \in CountUnitLists : UnitsConstruct(segments)
    \/ \E segment \in CountUnitDomain : UnitsAppend(segment)
    \/ \E segments \in CountUnitLists : UnitsExtend(segments)
    \/ \E uk \in {"", "k"}, ck \in {"", "k"}, merge \in BOOLEAN :
           CountInContext(uk, ck, merge)
    \/ \E uk \in {"", "k"} : CountGlobally(uk)
    \/ \E uk \in {"", "k"}, window_size \in 1..2 :
           CountInWindow(uk, window_size)

SpecAxes == InitAxes /\ [][NextAxes]_vars

\* the elements of a list, each once, in the order of their first positions
FirstEncounters(list) ==
    LET firsts == {i \in 1..Len(list) :
                      \A j \in 1..(i - 1) : list[j] # list[i]}
    IN  [n \in 1..Cardinality(firsts) |->
            list[CHOOSE i \in firsts :
                     Cardinality({j \in firsts : j < i}) = n - 1]]

\* the pairs (context type, unit type) in the order in which
\* count_in_context meets them: context after context, and within a
\* context the units get_contained_segments returns
RECURSIVE Encounters(_)
Encounters(i) ==
    IF i = 0 THEN <<>>
    ELSE LET context == args.contexts.segmentation.segs[i]
             context_type ==
                 IF args.contexts.merge THEN "__global__"
                 ELSE token_type(data, context, args.contexts.annotation_key)
             unit_tokens ==
                 get_contained_segments(data, context, args.units.segmentation)
         IN  Encounters(i - 1)
                 \o [j \in 1..Len(unit_tokens) |->
                        <<context_type,
                          token_type(data, unit_tokens[j],
                                     args.units.annotation_key)>>]

\* the types of the units of the call, in the order of the segmentation
UnitList ==
    [j \in 1..Len(args.units.segmentation.segs) |-> UnitTypeAt(j)]

WithContexts ==
    /\ op = "count_in_context"
    /\ raised = "none"
    /\ args.contexts.segmentation # NoSegmentation

WithoutContexts ==
    /\ op \in {"count_in_context", "count_in_window"}
    /\ raised = "none"
    /\ ~WithContexts

\* both axes of a table of count_in_context with contexts
ContextAxesInFirstEncounterOrder ==
    LET encounters == Encounters(Len(args.contexts.segmentation.segs))
    IN  /\ result.row_ids
               = FirstEncounters([n \in 1..Len(encounters) |-> encounters[n][1]])
        /\ result.col_ids
               = FirstEncounters([n \in 1..Len(encounters) |-> encounters[n][2]])

\* the rows of a table made without contexts: '__global__', or the windows
\* by ascending number
RowsOfWholeOrWindows ==
    result.row_ids
        = IF op = "count_in_context" THEN <<"__global__">>
          ELSE [w \in 1..(Len(UnitList) - args.window_size + 1) |-> text(w)]

C15_WitnessWindow ==
    /\ WithoutContexts
    /\ op = "count_in_window"
    /\ Len(result.row_ids) = 2
    /\ Len(result.col_ids) = 2
    /\ result.col_ids # FirstEncounters(UnitList)

----------------------------------------------------------------------------
(* tokenize applied to a segmentation built by the constructor, append and *)
(* extend (segB) over the strings "aba" and a reference to it.             *)

TokenizeDomain ==
    {Segment(0, None, None, {}), Segment(0, 0, 2, {<<"k", "v">>}),
     Segment(0, 1, 3, {}), Segment(1, 1, None, {})}

TokenizeLists == SeqsUpTo(TokenizeDomain, 2) \ {<<>>}

Regex(chars, quant, mode, annotation) ==
    [chars |-> chars, quant |-> quant, mode |-> mode,
     annotation |-> annotation]

\* lists of regexes: [ab] and [a] as tokens with an annotation, b+, b* and
\* c* as separators, a* as tokens, and a regex with an unknown mode
RegexLists ==
    LET letter == Regex({"a", "b"}, "one", "tokenize", {<<"type", "C">>})
        vowel == Regex({"a"}, "one", "tokenize", {<<"type", "V">>})
    IN  {<<letter>>, <<vowel>>, <<letter, vowel>>, <<vowel, letter>>,
         <<Regex({"b"}, "plus", "split", {})>>,
         <<Regex({"b"}, "star", "split", {<<"k", "w">>})>>,
         <<Regex({"c"}, "star", "split", {})>>,
         <<Regex({"a"}, "star", "tokenize", {})>>,
         <<Regex({"b"}, "plus", "split", {}), letter>>,
         <<Regex({"b"}, "one", "tokenise", {})>>}

Tokenize(regexes, import_annotations, merge_duplicates, auto_number_as, adjacent_empty) ==
    /\ op \in BuildOps \ {"init"}
    /\ \E r \in {tokenize(data, segB, regexes, "tokens", import_annotations,
                          merge_duplicates, auto_number_as, adjacent_empty)} :
           /\ op' = "tokenize"
           /\ args' = [segmentation |-> segB, regexes |-> regexes,
                       import_annotations |-> import_annotations,
                       merge_duplicates |-> merge_duplicates,
                       auto_number_as |-> auto_number_as,
                       adjacent_empty |-> adjacent_empty]
           /\ result' = r.seg
           /\ raised' = r.raised
           /\ UNCHANGED <<data, prevData, segA, segB>>

NextTokenize ==
    \/ \E segments \in TokenizeLists : UnitsConstruct(segments)
    \/ \E segment \in TokenizeDomain : UnitsAppend(segment)
    \/ \E segments \in TokenizeLists : UnitsExtend(segments)
    \/ \E regexes \in RegexLists, import_annotations \in BOOLEAN,
          merge_duplicates \in BOOLEAN, adjacent_empty \in BOOLEAN :
           Tokenize(regexes, import_annotations, merge_duplicates, "",
                    adjacent_empty)

SpecTokenize == InitWindow /\ [][NextTokenize]_vars

\* what tokenize returns for the same call without merge_duplicates and
\* without numbering
Unmerged ==
    tokenize(data, args.segmentation, args.regexes, "tokens",
             args.import_annotations, FALSE, "", args.adjacent_empty).seg.segs

\* the annotations of the segments of a list that have a given address,
\* united in the order of the list, a later value replacing an earlier one
RECURSIVE UnitedAnnotations(_, _)
UnitedAnnotations(segs, address) ==
    IF segs = <<>> THEN {}
    ELSE LET earlier == UnitedAnnotations(SubSeq(segs, 1, Len(segs) - 1),
                                          address)
             last == segs[Len(segs)]
         IN  IF Address(last) = address
             THEN AnnUpdate(earlier, last.annotations)
             ELSE earlier

(* C16: after tokenize(segmentation, rules, merge_duplicates=True), for    *)
(* any input segmentation (overlapping segments included), no two output   *)
(* segments have the same (str_index, start, end), and the annotations of  *)
(* merged segments are united, a later value replacing an earlier one.     *)
C16_MergeDuplicatesLeavesNoDuplicate ==
    (op = "tokenize" /\ raised = "none" /\ args.merge_duplicates
        /\ args.auto_number_as = "") =>
        /\ \A i, j \in 1..Len(result.segs) :
               Address(result.segs[i]) = Address(result.segs[j]) => i = j
        /\ \A i \in 1..Len(result.segs) :
               result.segs[i].annotations
                   = UnitedAnnotations(Unmerged, Address(result.segs[i]))

\* the call has a single regex, in mode 'split', and merges and numbers
\* nothing
SplitCall ==
    /\ op = "tokenize"
    /\ raised = "none"
    /\ Len(args.regexes) = 1
    /\ args.regexes[1].mode = "split"
    /\ ~args.merge_duplicates
    /\ args.auto_number_as = ""

\* the matches of the regex of a split call in an input segment, as spans
\* of offsets in the string
MatchesIn(segment) ==
    LET start == PyOr(segment.start, 0)
        matches == finditer(args.regexes[1], get_content(data, segment),
                            args.adjacent_empty)
    IN  {<<start + matches[i][1], start + matches[i][2]>> :
            i \in 1..Len(matches)}

\* the maximal non-empty gaps the matches leave in an input segment: no
\* character of the gap is in a match and no match lies within it, and it
\* extends on each side to a match or to the edge of the segment
Gaps(segment) ==
    LET start == PyOr(segment.start, 0)
        end == start + Len(get_content(data, segment))
        matches == MatchesIn(segment)
    IN  {g \in (start..end) \X (start..end) :
            /\ g[1] < g[2]
            /\ \A m \in matches : m[2] <= g[1] \/ m[1] >= g[2]
            /\ g[1] = start \/ \E m \in matches : m[2] = g[1]
            /\ g[2] = end \/ \E m \in matches : m[1] = g[2]}

\* the segments of the output that come from the i-th input segment, for
\* a call with one regex: those at positions First(i) .. First(i + 1) - 1
RECURSIVE GapsBefore(_)
GapsBefore(i) ==
    IF i = 0 THEN 0
    ELSE GapsBefore(i - 1) + Cardinality(Gaps(args.segmentation.segs[i]))

(* C17: in split mode, tokenize emits for each input segment exactly the   *)
(* maximal non-empty gaps left by the matches of the regex (between the    *)
(* matches and at the edges), in ascending order: each lies inside the     *)
(* input segment, has start < end and shares no character with a match.    *)
C17_SplitEmitsTheGaps ==
    SplitCall =>
        /\ Len(result.segs) = GapsBefore(Len(args.segmentation.segs))
        /\ \A i \in 1..Len(args.segmentation.segs) :
               LET segment == args.segmentation.segs[i]
                   emitted == SubSeq(result.segs, GapsBefore(i - 1) + 1,
                                     GapsBefore(i))
               IN  /\ {<<s.start, s.end>> : s \in Range(emitted)}
                          = Gaps(segment)
                   /\ \A s \in Range(emitted) :
                          s.str_index = segment.str_index
                   /\ \A k \in 1..(Len(emitted) - 1) :
                          emitted[k].end <= emitted[k + 1].start

\* "aba" split on b*: the gaps before and after the b, the empty matches
\* at 0 and 3 making none
C17_Witness ==
    /\ SplitCall
    /\ args.regexes[1].quant = "star"
    /\ Len(args.segmentation.segs) = 2
    /\ args.segmentation.segs[2] = Segment(0, None, None, {})
    /\ Len(result.segs) >= 3
    /\ result.segs[Len(result.segs) - 1]
           = Segment(0, 0, 1, {<<"k", "w">>})
    /\ result.segs[Len(result.segs)] = Segment(0, 2, 3, {<<"k", "w">>})

\* "aba" split on c*, which matches nothing but the empty string at each
\* offset: every character is a gap between two matches
C17_WitnessEmptyMatches ==
    /\ SplitCall
    /\ args.regexes[1].chars = {"c"}
    /\ args.segmentation.segs = <<Segment(0, None, None, {})>>
    /\ [i \in 1..Len(result.segs) |-> Address(result.segs[i])]
           = <<<<0, 0, 1>>, <<0, 1, 2>>, <<0, 2, 3>>>>

----------------------------------------------------------------------------
(* select, threshold, sample and intersect applied to a segmentation built *)
(* by the constructor, append and extend (segB); intersect filters it by   *)
(* one of a few segmentations (segA).                                      *)

SelectDomain ==
    {Segment(0, 0, 1, {}), Segment(0, 1, 2, {<<"k", "a">>}),
     Segment(0, 2, 3, {<<"k", "b">>}), Segment(1, None, 2, {<<"k", "a">>})}

SelectLists == SeqsUpTo(SelectDomain, 2) \ {<<>>}

Filterings ==
    {SegmentationFromList(l, "filtering") :
        l \in {<<Segment(0, 0, 1, {})>>,
               <<Segment(0, 1, 2, {<<"k", "a">>}), Segment(0, 0, 2, {})>>}}

InitSelect ==
    /\ data = CountStore
    /\ prevData = CountStore
    /\ segA \in Filterings
    /\ segB = EmptySegmentation
    /\ op = "init"
    /\ args = <<>>
    /\ result = <<>>
    /\ raised = "none"

Returned(name, a, r) ==
    /\ op \in BuildOps \ {"init"}
    /\ op' = name
    /\ args' = a
    /\ result' = [pos |-> r.pos, neg |-> r.neg]
    /\ raised' = r.raised
    /\ UNCHANGED <<data, prevData, segA, segB>>

Select(regex, mode, annotation_key, copy_annotations) ==
    Returned("select",
             [segmentation |-> segB, regex |-> regex, mode |-> mode,
              annotation_key |-> annotation_key,
              copy_annotations |-> copy_annotations],
             select(data, segB, regex, mode, annotation_key, "selected_data",
                    copy_annotations))

Threshold(min_count, max_count, annotation_key, copy_annotations) ==
    Returned("threshold",
             [segmentation |-> segB, min_count |-> min_count,
              max_count |-> max_count, annotation_key |-> annotation_key,
              copy_annotations |-> copy_annotations],
             threshold(data, segB, min_count, max_count, annotation_key,
                       "thresholded_data", copy_annotations))

Sample(sample_size, mode, copy_annotations) ==
    \E sampled \in IF mode = "random"
                   THEN {s \in SUBSET (0..(Len(segB.segs) - 1)) :
                            Cardinality(s) = Min({sample_size, Len(segB.segs)})}
                   ELSE {{}} :
        Returned("sample",
                 [segmentation |-> segB, sample_size |-> sample_size,
                  mode |-> mode, copy_annotations |-> copy_annotations],
                 sample(segB, sample_size, mode, "sampled_data",
                        copy_annotations, sampled))

Intersect(source_annotation_key, filtering_annotation_key, mode, copy_annotations) ==
    Returned("intersect",
             [segmentation |-> segB, filtering |-> segA,
              source_annotation_key |-> source_annotation_key,
              filtering_annotation_key |-> filtering_annotation_key,
              mode |-> mode, copy_annotations |-> copy_annotations],
             intersect(data, segB, segA, source_annotation_key,
                       filtering_annotation_key, mode, "selected_data",
                       copy_annotations))

NextSelect ==
    \/ \E segments \in SelectLists : UnitsConstruct(segments)
    \/ \E segment \in SelectDomain : UnitsAppend(segment)
    \/ \E segments \in SelectLists : UnitsExtend(segments)
    \/ \E regex \in {Regex({"a"}, "one", "", {}), Regex({"b"}, "plus", "", {})},
          mode \in {"include", "exclude"}, annotation_key \in {"", "k"},
          copy_annotations \in BOOLEAN :
           Select(regex, mode, annotation_key, copy_annotations)
    \/ \E min_count \in {None, 2}, max_count \in {None, 1},
          annotation_key \in {"", "k"}, copy_annotations \in BOOLEAN :
           Threshold(min_count, max_count, annotation_key, copy_annotations)
    \/ \E sample_size \in 0..(MaxUnits + 1),
          mode \in {"random", "systematic", "stratified"},
          copy_annotations \in BOOLEAN :
           Sample(sample_size, mode, copy_annotations)
    \/ \E source_annotation_key \in {"", "k"},
          filtering_annotation_key \in {"", "k"},
          mode \in {"include", "exclude"}, copy_annotations \in BOOLEAN :
           Intersect(source_annotation_key, filtering_annotation_key, mode,
                     copy_annotations)

SpecSelect == InitSelect /\ [][NextSelect]_vars

\* one of the four functions was called
Filtered == op \in {"select", "threshold", "sample", "intersect"}

\* the call is one the functions are defined for: a sample size of 1 to
\* the number of segments, a known sampling mode
ValidCall ==
    /\ Filtered
    /\ op = "sample" =>
           /\ args.mode \in {"random", "systematic"}
           /\ args.sample_size \in 1..Len(args.segmentation.segs)

\* the copies of the input segments the functions distribute
Copies ==
    [i \in 1..Len(args.segmentation.segs) |->
        deepcopy(args.segmentation.segs[i], NoAnnotations,
                 args.copy_annotations)]

\* the elements of a list at the positions of a set, in the order of the list
At(list, positions) ==
    LET RECURSIVE at(_)
        at(i) == IF i = 0 THEN <<>>
                 ELSE IF i \in positions THEN Append(at(i - 1), list[i])
                 ELSE at(i - 1)
    IN  at(Len(list))

\* (pos, neg) is a partition of the input that keeps its order
Partitions(r) ==
    \E positions \in SUBSET (1..Len(Copies)) :
        /\ r.pos.segs = At(Copies, positions)
        /\ r.neg.segs = At(Copies, (1..Len(Copies)) \ positions)

\* the result of the same call of select or intersect in the other mode
OtherMode ==
    LET other == IF args.mode = "include" THEN "exclude" ELSE "include"
    IN  IF op = "select"
        THEN select(data, args.segmentation, args.regex, other,
                    args.annotation_key, "selected_data",
                    args.copy_annotations)
        ELSE intersect(data, args.segmentation, args.filtering,
                       args.source_annotation_key,
                       args.filtering_annotation_key, other, "selected_data",
                       args.copy_annotations)

(* C18: select, threshold, intersect and sample each return a pair         *)
(* (positive, negative) that partitions the input: every input segment is  *)
(* in exactly one of the two, the input order is kept and the lengths sum  *)
(* to the input length; for select and intersect, switching the mode from  *)
(* include to exclude swaps the two outputs.                               *)
C18_OutputsPartitionTheInput ==
    ValidCall =>
        /\ raised = "none"
        /\ Partitions(result)
        /\ Len(result.pos.segs) + Len(result.neg.segs)
               = Len(args.segmentation.segs)
        /\ op \in {"select", "intersect"} =>
               /\ OtherMode.pos.segs = result.neg.segs
               /\ OtherMode.neg.segs = result.pos.segs

\* sample was called in mode 'systematic' with a positive sample size on
\* a segmentation that is not empty
SystematicCall ==
    /\ op = "sample"
    /\ args.mode = "systematic"
    /\ args.sample_size >= 1
    /\ Len(args.segmentation.segs) >= 1

\* the copies of the input segments at positions 0, s, 2s, ...
EveryNth(s) == At(Copies, {i \in 1..Len(Copies) : (i - 1) % s = 0})

\* len(segmentation) / sample_size rounded to the nearest integer (a half
\* to the even one), and 1 where that is 0
NearestStride ==
    LET n == Len(args.segmentation.segs)
        q == n \div args.sample_size
        rest == n % args.sample_size
        nearest == IF 2 * rest < args.sample_size THEN q
                   ELSE IF 2 * rest > args.sample_size THEN q + 1
                   ELSE q + (q % 2)
    IN  IF nearest = 0 THEN 1 ELSE nearest

(* C19 as stated: sample in mode 'systematic' puts in the positive output  *)
(* exactly the input segments at positions 0, s, 2s, ... where s is the    *)
(* floor of len(segmentation) / sample_size.                               *)
C19_SystematicStrideIsFloor ==
    (SystematicCall /\ args.sample_size <= Len(args.segmentation.segs)) =>
        /\ raised = "none"
        /\ result.pos.segs
               = EveryNth(Len(args.segmentation.segs) \div args.sample_size)

(* C19: sample in mode 'systematic' puts in the positive output exactly    *)
(* the input segments at positions 0, s, 2s, ... where s is                *)
(* len(segmentation) / sample_size rounded to the nearest integer, and 1   *)
(* where that is 0; the other segments are in the negative output.         *)
C19_SystematicStrideIsNearest ==
    SystematicCall =>
        /\ raised = "none"
        /\ result.pos.segs = EveryNth(NearestStride)
        /\ Partitions(result)

\* three segments sampled with sample size 2: the stride is 2, not 1
C19_Witness ==
    /\ SystematicCall
    /\ Len(args.segmentation.segs) = 3
    /\ args.sample_size = 2
    /\ Len(result.pos.segs) = 2
    /\ Len(result.neg.segs) = 1

----------------------------------------------------------------------------
(* import_xml applied to segmentations of two strings made of a few tags   *)
(* and characters.                                                         *)

MaxPieces == 2     \* largest number of tags and characters in the first string

XmlPieces ==
    {<<"<", "a", ">">>, <<"<", "/", "a", ">">>, <<"<", "a", "/", ">">>,
     <<"<", "b", ">">>, <<"x">>, <<"<", "/", ">">>}

XmlTexts ==
    LET RECURSIVE texts(_)
        texts(n) ==
            IF n = 0 THEN {<<>>}
            ELSE texts(n - 1)
                     \cup {prefix \o piece : prefix \in texts(n - 1),
                                             piece \in XmlPieces}
    IN  texts(MaxPieces)

XmlStores ==
    {<<Str(first), Str(second)>> :
        first \in XmlTexts,
        second \in {<<"x", "<", "/", "a", ">">>,
                    <<"<", "/", "a", ">", "<", "/", "a", ">">>}}

XmlLists ==
    {<<Segment(0, None, None, {})>>,
     <<Segment(0, None, None, {<<"k", "v">>}), Segment(1, None, None, {})>>,
     <<Segment(0, None, None, {}), Segment(0, None, None, {<<"k", "v">>})>>,
     <<Segment(0, 0, 4, {}), Segment(0, None, None, {}),
       Segment(1, None, None, {})>>,
     <<Segment(0, 1, None, {}), Segment(1, 1, None, {})>>}

InitXml ==
    /\ data \in XmlStores
    /\ prevData = data
    /\ segA = EmptySegmentation
    /\ segB = EmptySegmentation
    /\ op = "init"
    /\ args = <<>>
    /\ result = <<>>
    /\ raised = "none"

XmlConstruct(segments) ==
    /\ \A i \in 1..Len(segments) :
           segments[i].end = None
               \/ segments[i].end <= Len(data[segments[i].str_index + 1].str)
    /\ UnitsConstruct(segments)

ImportXml(element, import_element_as, import_annotations, merge_duplicates, remove_markup, preserve_leaves, none_sorts_first) ==
    /\ op = "Segmentation"
    /\ \E r \in {import_xml(data, segB, element, import_element_as,
                            "xml_data", import_annotations, merge_duplicates,
                            remove_markup, preserve_leaves,
                            none_sorts_first)} :
           /\ result' = r.seg
           /\ raised' = r.raised
    /\ op' = "import_xml"
    /\ args' = [segmentation |-> segB, element |-> element,
                merge_duplicates |-> merge_duplicates,
                remove_markup |-> remove_markup,
                none_sorts_first |-> none_sorts_first]
    /\ UNCHANGED <<data, prevData, segA, segB>>

NextXml ==
    \/ \E segments \in XmlLists : XmlConstruct(segments)
    \/ \E element \in {<<"a">>, <<"<", "a", ">">>},
          import_element_as \in {"", "e"},
          merge_duplicates \in BOOLEAN, remove_markup \in BOOLEAN,
          none_sorts_first \in BOOLEAN :
           ImportXml(element, import_element_as, TRUE, merge_duplicates,
                     remove_markup, merge_duplicates /\ remove_markup,
                     none_sorts_first)

SpecXml == InitXml /\ [][NextXml]_vars

\* the non-empty opening (TRUE) and closing (FALSE) tags of the requested
\* element, read across the input segments in order
ElementTags ==
    LET name == SelectSeq(args.element, LAMBDA c : c \notin {"<", ">"})
        segs == args.segmentation.segs
        tags_in(content) ==
            LET matches == find_tags(content)
                desc == [m \in 1..Len(matches) |->
                            _parse_xml_tag(SubSeq(content, matches[m][1] + 1,
                                                  matches[m][2]))]
                kept == SelectSeq(desc,
                            LAMBDA t : t.element = name /\ ~t.is_empty)
            IN  [m \in 1..Len(kept) |-> kept[m].is_opening]
        RECURSIVE tags_up_to(_)
        tags_up_to(i) ==
            IF i = 0 THEN <<>>
            ELSE tags_up_to(i - 1) \o tags_in(get_content(data, segs[i]))
    IN  tags_up_to(Len(segs))

\* the number of frames open after the first n tags
OpenFrames(tags, n) ==
    Cardinality({m \in 1..n : tags[m]}) - Cardinality({m \in 1..n : ~tags[m]})

\* an orphan closing tag, or a closing tag missing at the end
Unbalanced(tags) ==
    \/ \E n \in 1..Len(tags) : OpenFrames(tags, n) < 0
    \/ OpenFrames(tags, Len(tags)) > 0

(* C20: import_xml raises a parse error iff the sequence of non-empty      *)
(* opening and closing tags of the requested element, read across all      *)
(* input segments in order, is unbalanced (a closing tag while no frame is *)
(* open, or a frame still open when the input is exhausted); for a         *)
(* balanced sequence it returns a segmentation.                            *)
C20_ParseErrorIffUnbalanced ==
    op = "import_xml" =>
        /\ raised = "ValueError" <=> Unbalanced(ElementTags)
        /\ ~Unbalanced(ElementTags) => raised = "none"

----------------------------------------------------------------------------
(* The overlap test of recode (under SpecRecode).                          *)

\* the [start, end) range of a segment: an absent start is 0, an absent end
\* the length of the string
RangeStart(s) == IF s.start = None THEN 0 ELSE s.start
RangeEnd(d, s) ==
    IF s.end = None THEN Len(get_data(d, s.str_index).str) ELSE s.end

\* two segments of the same string whose ranges share a character
ShareCharacter(d, s, t) ==
    /\ s.str_index = t.str_index
    /\ \E c \in 0..(Len(get_data(d, s.str_index).str) - 1) :
           /\ RangeStart(s) <= c /\ c < RangeEnd(d, s)
           /\ RangeStart(t) <= c /\ c < RangeEnd(d, t)

\* some two segments at different positions share a character
Overlapping(d, S) ==
    \E i, j \in 1..Len(S.segs) :
        i # j /\ ShareCharacter(d, S.segs[i], S.segs[j])

(* C21: recode raises a configuration error exactly when the input         *)
(* segmentation contains two distinct segments of the same string whose    *)
(* [start,end) ranges share at least one character, whatever the order of  *)
(* the segments; it accepts every other input.                             *)
C21_RecodeRejectsExactlyOverlaps ==
    op = "recode" =>
        (raised = "ValueError" <=> Overlapping(prevData, args.segmentation))

----------------------------------------------------------------------------
(* get_contained_sequence_indices of a segment applied to a segmentation   *)
(* built by the constructor, append and extend.                            *)

GetContainedSequenceIndices(self, length) ==
    /\ op \in BuildOps \ {"init"}
    /\ \E r \in {get_contained_sequence_indices(data, self, segB, length)} :
           /\ result' = r.indices
           /\ raised' = r.raised
    /\ op' = "get_contained_sequence_indices"
    /\ args' = [self |-> self, length |-> length]
    /\ UNCHANGED <<data, prevData, segA, segB>>

\* the querying segment: the whole string, its first character, what
\* follows it, and the whole string through the redirect
SequenceQueries ==
    {Segment(0, None, None, {}), Segment(0, 0, 1, {}),
     Segment(0, 1, None, {}), Segment(1, None, None, {})}

NextSequences ==
    \/ \E segments \in UnitLists : UnitsConstruct(segments)
    \/ \E segment \in UnitDomain : UnitsAppend(segment)
    \/ \E segments \in UnitLists : UnitsExtend(segments)
    \/ \E self \in SequenceQueries, length \in 0..MaxUnits :
           GetContainedSequenceIndices(self, length)

SpecSequences == InitUnits /\ [][NextSequences]_vars

\* the indices returned by get_contained_segment_indices for the same call
ContainedIndices == Range(get_contained_segment_indices(data, args.self, segB))

(* C22: s.get_contained_sequence_indices(B, n) returns, in ascending       *)
(* order, exactly the indices i such that i, i+1, ..., i+n-1 are all among *)
(* the indices returned by s.get_contained_segment_indices(B).             *)
C22_SequenceIndicesAreRunStarts ==
    (op = "get_contained_sequence_indices" /\ args.length >= 1) =>
        /\ raised = "none"
        /\ \A p \in 1..(Len(result) - 1) : result[p] < result[p + 1]
        /\ Range(result)
               = {i \in ContainedIndices :
                     \A k \in 0..(args.length - 1) : i + k \in ContainedIndices}

\* sequences of two segments are asked for and found, and some segment of
\* the segmentation is not contained
C22_Witness ==
    /\ op = "get_contained_sequence_indices"
    /\ args.length = 2
    /\ result # <<>>
    /\ \E i \in 0..(Len(segB.segs) - 1) : i \notin ContainedIndices

\* the contained indices form two runs
C22_WitnessTwoRuns ==
    /\ op = "get_contained_sequence_indices"
    /\ args.length >= 1
    /\ \E i \in ContainedIndices :
           i + 1 \notin ContainedIndices /\ i + 2 \in ContainedIndices

----------------------------------------------------------------------------
(* sample_dict and get_expected_subsample_variety applied to frequency     *)
(* dicts of one to three keys.                                             *)

MaxFreq == 2     \* largest count of a key in a frequency dict

FreqDicts ==
    {<<(<<"a", va>>)>> : va \in 1..MaxFreq}
        \cup {<<(<<"a", va>>), (<<"b", vb>>)>> : va, vb \in 1..MaxFreq}
        \cup {<<(<<"a", va>>), (<<"b", vb>>), (<<"c", vc>>)>> :
                 va, vb, vc \in 1..MaxFreq}

InitUtils ==
    /\ data = <<>>
    /\ prevData = <<>>
    /\ segA = EmptySegmentation
    /\ segB = EmptySegmentation
    /\ op = "init"
    /\ args \in {[dictionary |-> d] : d \in FreqDicts}
    /\ result = <<>>
    /\ raised = "none"

SampleDict(sample_size, below) ==
    /\ op = "init"
    /\ \E r \in {sample_dict(args.dictionary, sample_size, below)} :
           /\ result' = r.new_dict
           /\ raised' = r.raised
    /\ op' = "sample_dict"
    /\ args' = [dictionary |-> args.dictionary, sample_size |-> sample_size]
    /\ UNCHANGED <<data, prevData, segA, segB>>

GetExpectedSubsampleVariety(subsample_size) ==
    /\ op = "init"
    /\ \E r \in {get_expected_subsample_variety(args.dictionary,
                                                subsample_size)} :
           /\ result' = r.value
           /\ raised' = r.raised
    /\ op' = "get_expected_subsample_variety"
    /\ args' = [dictionary |-> args.dictionary,
                subsample_size |-> subsample_size]
    /\ UNCHANGED <<data, prevData, segA, segB>>

NextUtils ==
    \/ \E sample_size \in 1..(sum_values(args.dictionary) + 1),
          below \in [1..sum_values(args.dictionary) -> BOOLEAN] :
           SampleDict(sample_size, below)
    \/ \E subsample_size \in 1..(sum_values(args.dictionary) + 1) :
           GetExpectedSubsampleVariety(subsample_size)

SpecUtils == InitUtils /\ [][NextUtils]_vars

\* the number of subsets of k elements of a set of n elements
RECURSIVE Subsets(_, _)
Subsets(n, k) ==
    IF k = 0 THEN 1
    ELSE IF n < k THEN 0
    ELSE Subsets(n - 1, k - 1) + Subsets(n - 1, k)

\* the sum over the values v of d of C(N - v, k)
SumOfMisses(d, k) ==
    LET RECURSIVE misses(_)
        misses(i) == IF i = 0 THEN 0
                     ELSE misses(i - 1)
                              + Subsets(sum_values(d) - d[i][2], k)
    IN  misses(Len(d))

\* the fraction <<numerator, denominator>> equals n / m
IsQuotient(fraction, n, m) == fraction[1] * m = n * fraction[2]

C24_SampleDictDrawsExactlyK ==
    op = "sample_dict" =>
        IF args.sample_size > sum_values(args.dictionary)
        THEN raised = "ValueError" /\ result = <<>>
        ELSE /\ raised = "none"
             /\ sum_values(result) = args.sample_size
             /\ \A i \in 1..Len(result) :
                    /\ DictHas(args.dictionary, result[i][1])
                    /\ 1 <= result[i][2]
                    /\ result[i][2] <= DictGet(args.dictionary, result[i][1])
             /\ \A i, j \in 1..Len(result) :
                    result[i][1] = result[j][1] => i = j

\* a sample smaller than the dict that leaves a key out and takes another
\* key less often than it occurs
C24_Witness ==
    /\ op = "sample_dict"
    /\ raised = "none"
    /\ args.sample_size < sum_values(args.dictionary)
    /\ Len(result) < Len(args.dictionary)
    /\ \E i \in 1..Len(result) :
           result[i][2] < DictGet(args.dictionary, result[i][1])

----------------------------------------------------------------------------
(* The str_index_ptr of a segmentation built by the constructor, append    *)
(* and extend (under SpecUnits).                                           *)

\* the position (from 0) of the first segment of S whose str_index is i
FirstPosition(S, i) ==
    CHOOSE p \in 0..(Len(S.segs) - 1) :
        /\ S.segs[p + 1].str_index = i
        /\ \A q \in 0..(p - 1) : S.segs[q + 1].str_index # i

(* C25: after any sequence of construction from a list of segments, append *)
(* and extend operations on a segmentation S, for every str_index i        *)
(* occurring in S, S.str_index_ptr[i] is the position of the first segment *)
(* of S whose str_index is i, also when the segments bearing i do not form *)
(* one contiguous run.                                                     *)
C25_PtrIsFirstPosition ==
    op \in BuildOps =>
        \A p \in 1..Len(segB.segs) :
            LET i == segB.segs[p].str_index
            IN  /\ DictHas(segB.str_index_ptr, i)
                /\ DictGet(segB.str_index_ptr, i) = FirstPosition(segB, i)

----------------------------------------------------------------------------
(* count_in_window applied to a unit segmentation built by the             *)
(* constructor, append and extend (segB), with sequences of one or more    *)
(* units.                                                                  *)

MaxSeqLength == 2     \* largest seq_length of the units

CountSequencesInWindow(unit_annotation_key, seq_length, window_size) ==
    LET units == [segmentation |-> segB,
                  annotation_key |-> unit_annotation_key,
                  seq_length |-> seq_length]
    IN  /\ op \in BuildOps \ {"init"}
        /\ \E set_order \in SetOrders(UnitTypes(unit_annotation_key)) :
               \E r \in {count_in_window(data, units, window_size, set_order)} :
                   /\ op' = "count_in_window"
                   /\ args' = [units |-> units, window_size |-> window_size]
                   /\ result' = r.table
                   /\ raised' = r.raised
                   /\ UNCHANGED <<data, prevData, segA, segB>>

NextSeqWindow ==
    \/ \E segments \in CountUnitLists : UnitsConstruct(segments)
    \/ \E segment \in CountUnitDomain : UnitsAppend(segment)
    \/ \E segments \in CountUnitLists : UnitsExtend(segments)
    \/ \E uk \in {"", "k"}, seq_length \in 1..MaxSeqLength,
          window_size \in 1..MaxUnits :
           CountSequencesInWindow(uk, seq_length, window_size)

SpecSeqWindow == InitWindow /\ [][NextSeqWindow]_vars

\* the seq_length consecutive units of the call that start at position p
\* (from 0), joined by the delimiter
SequenceFrom(p) ==
    LET Unit(j) == IF args.units.annotation_key # "" THEN <<UnitTypeAt(j)>>
                   ELSE UnitTypeAt(j)
        RECURSIVE Joined(_)
        Joined(j) == IF j = p + 1 THEN Unit(j)
                     ELSE Joined(j - 1) \o <<"#">> \o Unit(j)
    IN  IF args.units.seq_length = 1 THEN UnitTypeAt(p + 1)
        ELSE Joined(p + args.units.seq_length)

\* the start positions, within window i, of the sequences equal to u
StartsInWindow(i, u) ==
    {p \in (i - 1)..(i - 1 + args.window_size - args.units.seq_length) :
        SequenceFrom(p) = u}

(* C26: for a unit list of length L, window size W and sequence length n   *)
(* with n <= W <= L, count_in_window yields the rows '1' .. 'L-W+1' and    *)
(* its cell (i, u) is the number of start positions p with                 *)
(* i-1 <= p <= i-1+W-n at which the n consecutive units joined by the      *)
(* delimiter equal u: the incremental update gives the same table as       *)
(* recounting every window from scratch.                                   *)
C26_WindowCountsEqualRecount ==
    LET L == Len(args.units.segmentation.segs)
        W == args.window_size
        n == args.units.seq_length
    IN  (op = "count_in_window" /\ n <= W /\ W <= L) =>
            /\ raised = "none"
            /\ result.row_ids = [i \in 1..(L - W + 1) |-> text(i)]
            /\ \A i \in 1..(L - W + 1), q \in 0..(L - n) :
                   get_missing(result, text(i), SequenceFrom(q), 0)
                       = Cardinality(StartsInWindow(i, SequenceFrom(q)))

\* sequences of two units counted in several windows, one of which has
\* lost a sequence that the first window held
C26_Witness ==
    /\ op = "count_in_window"
    /\ raised = "none"
    /\ args.units.seq_length = 2
    /\ args.window_size >= 2
    /\ Len(args.units.segmentation.segs) > args.window_size
    /\ get_missing(result, "1", SequenceFrom(0), 0) = 1
    /\ get_missing(result, "2", SequenceFrom(0), 0) = 0

----------------------------------------------------------------------------
(* The counting operations when nothing is counted (under SpecAxes).       *)

\* the call counts nothing: no unit segment is contained in any context
\* segment, or the window is larger than the unit segmentation
NothingCounted ==
    \/ /\ op = "count_in_context"
       /\ args.contexts.segmentation # NoSegmentation
       /\ \A i \in 1..Len(args.contexts.segmentation.segs) :
              get_contained_segments(data, args.contexts.segmentation.segs[i],
                                     args.units.segmentation) = <<>>
    \/ /\ op = "count_in_window"
       /\ args.window_size > Len(args.units.segmentation.segs)

(* C27: when nothing is counted, count_in_context (no unit segment         *)
(* contained in any context segment) and count_in_window (window size      *)
(* larger than the number of units) do not raise: they return a table with *)
(* no row, no column and no nonzero cell.                                  *)
C27_NothingCountedGivesEmptyTable ==
    NothingCounted =>
        /\ raised = "none"
        /\ result.row_ids = <<>>
        /\ result.col_ids = <<>>
        /\ result.values = <<>>

----------------------------------------------------------------------------
(* The page cache of Segmentation.py: segments_cache maps a key            *)
(* <<segmentation, id>> to a page, which is either an array resident in    *)
(* memory or a file holding the array; segments_access_time lists keys,    *)
(* leftmost first. Both are kept in one record c.                          *)

CACHE_SIZE == 2     \* pages kept in memory (200 in the program)

\* a numpy array in memory
NdArray(array) == [ndarray |-> TRUE, array |-> array]

\* a NamedTemporaryFile to which the array was saved
TemporaryFile(array) == [ndarray |-> FALSE, array |-> array]

\* del d[k]
DictDel(d, k) ==
    LET Other(item) == item[1] # k
    IN  SelectSeq(d, Other)

\* deque.remove(x) for an x that is in the deque
DequeRemove(deque, x) ==
    LET Other(y) == y # x
    IN  SelectSeq(deque, Other)

load_chunk(c, key) ==
    [c EXCEPT !.segments_cache =
        DictSet(@, key, NdArray(DictGet(@, key).array))]

unload_chunk(c, key) ==
    [c EXCEPT !.segments_cache =
        DictSet(@, key, TemporaryFile(DictGet(@, key).array))]

\* while len(segments_access_time) >= CACHE_SIZE: pop and unload
RECURSIVE offload(_)
offload(c) ==
    IF Len(c.segments_access_time) >= CACHE_SIZE
    THEN LET k == c.segments_access_time[Len(c.segments_access_time)]
         IN  offload(unload_chunk(
                 [c EXCEPT !.segments_access_time =
                     SubSeq(@, 1, Len(@) - 1)], k))
    ELSE c

\* segments_access_time.remove(key); segments_access_time.appendleft(key):
\* remove raises ValueError when the key is not in the deque
accessed(c, key) ==
    IF key \in Range(c.segments_access_time)
    THEN [c |-> [c EXCEPT !.segments_access_time =
                    <<key>> \o DequeRemove(@, key)],
          raised |-> "none"]
    ELSE [c |-> c, raised |-> "ValueError"]

get_chunk(c, segmentation, id) ==
    LET key == <<segmentation, id>>
    IN  IF ~DictHas(c.segments_cache, key)
        THEN [c |-> c, raised |-> "none", value |-> None]
        ELSE IF DictGet(c.segments_cache, key).ndarray
        THEN LET a == accessed(c, key)
             IN  [c |-> a.c, raised |-> a.raised,
                  value |-> IF a.raised = "none"
                            THEN DictGet(c.segments_cache, key).array
                            ELSE None]
        ELSE LET loaded ==
                     load_chunk([offload(c) EXCEPT !.segments_access_time =
                                    <<key>> \o @], key)
             IN  [c |-> loaded, raised |-> "none",
                  value |-> DictGet(loaded.segments_cache, key).array]

set_chunk(c, segmentation, id, array) ==
    LET key == <<segmentation, id>>
        got == get_chunk(c, segmentation, id)
        replaced == [got.c EXCEPT !.segments_cache =
                        DictSet(@, key, NdArray(array))]
    IN  IF got.raised # "none"
        THEN [c |-> got.c, raised |-> got.raised, value |-> None]
        ELSE [c |-> accessed(replaced, key).c,
              raised |-> accessed(replaced, key).raised, value |-> None]

add_chunk(c, segmentation, id, array) ==
    LET key == <<segmentation, id>>
    IN  IF DictHas(c.segments_cache, key)
        THEN LET set == set_chunk(c, segmentation, id, array)
             IN  [set EXCEPT !.value = IF set.raised = "none" THEN TRUE
                                       ELSE None]
        ELSE [c |-> [segments_cache |->
                         DictSet(offload(c).segments_cache, key,
                                 NdArray(array)),
                     segments_access_time |->
                         <<key>> \o offload(c).segments_access_time],
              raised |-> "none", value |-> FALSE]

remove_chunk(c, segmentation, id) ==
    LET key == <<segmentation, id>>
        deleted == [c EXCEPT !.segments_cache = DictDel(@, key)]
    IN  IF ~DictHas(c.segments_cache, key)
        THEN [c |-> c, raised |-> "none", value |-> None]
        ELSE IF DictGet(c.segments_cache, key).ndarray
        THEN IF key \in Range(c.segments_access_time)
             THEN [c |-> [deleted EXCEPT !.segments_access_time =
                             DequeRemove(@, key)],
                   raised |-> "none", value |-> None]
             ELSE [c |-> deleted, raised |-> "ValueError", value |-> None]
        ELSE [c |-> deleted, raised |-> "none", value |-> None]

cleanup_segmentation(c, segmentation) ==
    LET keys == DictKeys(c.segments_cache)
        RECURSIVE remove_from(_, _)
        remove_from(i, r) ==
            IF i > Len(keys) \/ r.raised # "none" THEN r
            ELSE remove_from(i + 1,
                             IF keys[i][1] = segmentation
                             THEN remove_chunk(r.c, keys[i][1], keys[i][2])
                             ELSE r)
    IN  remove_from(1, [c |-> c, raised |-> "none", value |-> None])

----------------------------------------------------------------------------
(* The page cache under calls of add_chunk, get_chunk, set_chunk,          *)
(* remove_chunk and cleanup_segmentation for the pages of two              *)
(* segmentations. In this section data holds the record of segments_cache *)
(* and segments_access_time, and prevData the record before the last      *)
(* call.                                                                   *)

\* the pages 1 and -1 of one segmentation and the page 1 of another
PageKeys == {<<"S", 1>>, <<"S", -1>>, <<"T", 1>>}
Arrays == {<<0>>, <<1>>}

InitCache ==
    /\ data = [segments_cache |-> <<>>, segments_access_time |-> <<>>]
    /\ prevData = data
    /\ segA = EmptySegmentation
    /\ segB = EmptySegmentation
    /\ op = "init"
    /\ args = <<>>
    /\ result = None
    /\ raised = "none"

Called(name, a, r) ==
    /\ op' = name
    /\ args' = a
    /\ prevData' = data
    /\ data' = r.c
    /\ result' = r.value
    /\ raised' = r.raised
    /\ UNCHANGED <<segA, segB>>

AddChunk(segmentation, id, array) ==
    \E r \in {add_chunk(data, segmentation, id, array)} :
        Called("add_chunk",
               [segmentation |-> segmentation, id |-> id, array |-> array], r)

GetChunk(segmentation, id) ==
    \E r \in {get_chunk(data, segmentation, id)} :
        Called("get_chunk", [segmentation |-> segmentation, id |-> id], r)

SetChunk(segmentation, id, array) ==
    \E r \in {set_chunk(data, segmentation, id, array)} :
        Called("set_chunk",
               [segmentation |-> segmentation, id |-> id, array |-> array], r)

RemoveChunk(segmentation, id) ==
    \E r \in {remove_chunk(data, segmentation, id)} :
        Called("remove_chunk", [segmentation |-> segmentation, id |-> id], r)

CleanupSegmentation(segmentation) ==
    \E r \in {cleanup_segmentation(data, segmentation)} :
        Called("cleanup_segmentation", [segmentation |-> segmentation], r)

NextCache ==
    \/ \E key \in PageKeys, array \in Arrays : AddChunk(key[1], key[2], array)
    \/ \E key \in PageKeys : GetChunk(key[1], key[2])
    \/ \E key \in PageKeys, array \in Arrays : SetChunk(key[1], key[2], array)
    \/ \E key \in PageKeys : RemoveChunk(key[1], key[2])
    \/ \E key \in PageKeys : CleanupSegmentation(key[1])

SpecCache == InitCache /\ [][NextCache]_vars

\* the keys of the pages that are in memory
Resident(c) ==
    {key \in Range(DictKeys(c.segments_cache)) :
        DictGet(c.segments_cache, key).ndarray}

\* segments_access_time holds exactly the resident keys, each once, and no
\* more than CACHE_SIZE of them
AccessTimeListsResidentPages ==
    /\ Range(data.segments_access_time) = Resident(data)
    /\ Len(data.segments_access_time) = Cardinality(Resident(data))
    /\ Len(data.segments_access_time) <= CACHE_SIZE

\* the last call put the page it accessed first and left the others in the
\* order they had: the order is that of the last accesses, latest first
AccessTimeInRecencyOrder ==
    LET now == data.segments_access_time
        Kept(k) == k \in Range(now)
        before == SelectSeq(prevData.segments_access_time, Kept)
    IN  IF op \in {"add_chunk", "set_chunk"}
              \/ (op = "get_chunk"
                     /\ DictHas(prevData.segments_cache,
                                <<args.segmentation, args.id>>))
        THEN LET key == <<args.segmentation, args.id>>
                 Others(k) == k # key
             IN  /\ now # <<>>
                 /\ now[1] = key
                 /\ Tail(now) = SelectSeq(before, Others)
        ELSE op # "init" => now = before

\* a page went from memory to disk only if it was the last of
\* segments_access_time
SpilledLeastRecentOnly ==
    \A key \in Resident(prevData) :
        (DictHas(data.segments_cache, key)
            /\ ~DictGet(data.segments_cache, key).ndarray) =>
            key = prevData.segments_access_time[
                      Len(prevData.segments_access_time)]

(* C29: after any sequence of add_chunk, get_chunk, set_chunk,             *)
(* remove_chunk and cleanup_segmentation calls, segments_access_time holds *)
(* exactly the keys of the pages resident in memory, each once, ordered    *)
(* from most to least recently accessed, and its length never exceeds      *)
(* CACHE_SIZE; a page is spilled to disk only when it is the least         *)
(* recently accessed resident page.                                        *)
C29_AccessTimeTracksResidentPages ==
    /\ AccessTimeListsResidentPages
    /\ AccessTimeInRecencyOrder
    /\ SpilledLeastRecentOnly

----------------------------------------------------------------------------
(* A segmentation whose first segments are sealed in pages. The object is  *)
(* [segments_nbr, segments_nbr_in_chunk, id_to_key, buffer]; its pages are *)
(* in the page cache under the keys <<"S", id>>: page id holds the rows    *)
(* [str_index, start, end], page -id the lists of annotation ids. The      *)
(* operators take and return st = [c, S], the cache and the object.        *)
(* key_to_id, the index of id_to_key by hash, is not kept.                 *)

CHUNK_SIZE == 2     \* segments per page (1000000 in the program)

Int32Max == 2147483647     \* np.iinfo(np.int32).max

EmptyPaged ==
    [segments_nbr |-> 0, segments_nbr_in_chunk |-> 0, id_to_key |-> <<>>,
     buffer |-> <<>>]

\* get_annotation_tab(segment), add_annotation_tuple included: the ids of
\* the annotations of the segment, new tuples being added to id_to_key
get_annotation_tab(S, segment) ==
    LET RECURSIVE tab(_, _, _)
        tab(items, id_to_key, ids) ==
            IF items = {} THEN [id_to_key |-> id_to_key, ids |-> ids]
            ELSE LET my_tuple == CHOOSE item \in items : TRUE
                     added == IF my_tuple \in Range(id_to_key) THEN id_to_key
                              ELSE Append(id_to_key, my_tuple)
                     id == (CHOOSE i \in 1..Len(added) :
                                added[i] = my_tuple) - 1
                 IN  tab(items \ {my_tuple}, added, Append(ids, id))
        r == tab(segment.annotations, S.id_to_key, <<>>)
    IN  [S |-> [S EXCEPT !.id_to_key = r.id_to_key], ids |-> r.ids]

\* create_anotation(): has_annotation() is get_chunk(self, -1) is not None
create_anotation(st) ==
    LET RECURSIVE pages(_, _, _)
        pages(c, nb_segment, id) ==
            IF nb_segment > CHUNK_SIZE
            THEN pages(add_chunk(c, "S", id,
                                 [k \in 1..CHUNK_SIZE |-> <<>>]).c,
                       nb_segment - CHUNK_SIZE, id - 1)
            ELSE add_chunk(c, "S", id, [k \in 1..nb_segment |-> <<>>]).c
    IN  IF DictHas(st.c.segments_cache, <<"S", -1>>)
        THEN [st EXCEPT !.c = get_chunk(st.c, "S", -1).c]
        ELSE [c |-> pages(st.c, st.S.segments_nbr_in_chunk, -1),
              S |-> [st.S EXCEPT !.id_to_key = <<>>]]

\* get_annotation(index): [c, annotations], {} standing for None
get_annotation(st, index) ==
    LET id == -((index \div CHUNK_SIZE) + 1)
        from_page(got) ==
            [c |-> got.c,
             annotations |->
                 {st.S.id_to_key[x + 1] :
                     x \in Range(got.value[(index % CHUNK_SIZE) + 1])}]
    IN  IF index >= st.S.segments_nbr_in_chunk
        THEN [c |-> st.c,
              annotations |->
                  st.S.buffer[index - st.S.segments_nbr_in_chunk + 1]
                      .annotations]
        ELSE IF ~DictHas(st.c.segments_cache, <<"S", id>>)
        THEN [c |-> st.c, annotations |-> {}]
        ELSE CHOOSE r \in {from_page(got) :
                              got \in {get_chunk(st.c, "S", id)}} : TRUE

\* store(): the first CHUNK_SIZE segments of the buffer are sealed in a new
\* page (segments_nbr_in_chunk is a multiple of CHUNK_SIZE whenever store
\* is called, so the last page is never reopened). A value that is used
\* several times is computed once, as the element of a singleton.
store(st) ==
    LET nbelement_to_store ==
            IF Len(st.S.buffer) < CHUNK_SIZE THEN Len(st.S.buffer)
            ELSE CHUNK_SIZE
        id == (st.S.segments_nbr_in_chunk \div CHUNK_SIZE) + 1
        row(segment) ==
            <<segment.str_index,
              IF segment.start = None THEN Int32Max ELSE segment.start,
              IF segment.end = None THEN Int32Max ELSE segment.end>>
        ex_mat == [k \in 1..nbelement_to_store |-> row(st.S.buffer[k])]
        \* one turn of the loop over the segments to store
        turn(index, a) ==
            CHOOSE next \in
                {CHOOSE next \in
                     {[st |-> [c |-> created.c, S |-> tab.S],
                       ex_annotation |-> Append(a.ex_annotation, tab.ids)] :
                          tab \in {get_annotation_tab(
                                       created.S,
                                       created.S.buffer[index + 1])}} : TRUE :
                    created \in {create_anotation(a.st)}} : TRUE
        RECURSIVE annotated(_, _)
        annotated(index, a) ==
            IF index >= nbelement_to_store THEN a
            ELSE CHOOSE r \in {annotated(index + 1, next) :
                                  next \in {turn(index, a)}} : TRUE
        \* add_chunk of the rows and, if has_annotation(), of the ids
        sealed(a) ==
            LET added == add_chunk(a.st.c, "S", id, ex_mat).c
            IN  [c |-> IF DictHas(added.segments_cache, <<"S", -1>>)
                       THEN add_chunk(get_chunk(added, "S", -1).c, "S", -id,
                                      a.ex_annotation).c
                       ELSE added,
                 S |-> [a.st.S EXCEPT
                          !.buffer = SubSeq(@, nbelement_to_store + 1, Len(@)),
                          !.segments_nbr_in_chunk = @ + nbelement_to_store]]
    IN  CHOOSE r \in
            {sealed(a) :
                a \in {annotated(0, [st |-> st, ex_annotation |-> <<>>])}} :
            TRUE

\* Segmentation.append(segment) up to the call of store (str_index_ptr is
\* left out)
append_and_store(st, segment) ==
    LET appended == [st EXCEPT !.S.buffer = Append(@, segment),
                               !.S.segments_nbr = @ + 1]
    IN  IF Len(appended.S.buffer) >= CHUNK_SIZE THEN store(appended)
        ELSE appended

\* Segmentation.__getitem__(key) for an integer key: [st, raised, value,
\* alias], alias being the position of the buffer whose object was
\* returned, None for a new object
__getitem__(st, key) ==
    LET k == IF key < 0 THEN st.S.segments_nbr + key ELSE key
        \* Segment(a[key % CHUNK_SIZE], self.get_annotation(key)) reads
        \* str_index[0], str_index[1] and str_index[2]
        from_row(row, annotation) ==
            IF Len(row) < 3
            THEN [st |-> [st EXCEPT !.c = annotation.c],
                  raised |-> "IndexError", value |-> NoSegment,
                  alias |-> None]
            ELSE [st |-> [st EXCEPT !.c = annotation.c], raised |-> "none",
                  value |-> Segment(row[1],
                                    IF row[2] = Int32Max THEN None ELSE row[2],
                                    IF row[3] = Int32Max THEN None ELSE row[3],
                                    annotation.annotations),
                  alias |-> None]
        from_page(got) ==
            CHOOSE r \in
                {from_row(got.value[(k % CHUNK_SIZE) + 1], annotation) :
                    annotation \in
                        {get_annotation([st EXCEPT !.c = got.c], k)}} : TRUE
    IN  IF k >= st.S.segments_nbr_in_chunk
        THEN IF k - st.S.segments_nbr_in_chunk >= Len(st.S.buffer)
             THEN [st |-> st, raised |-> "IndexError", value |-> NoSegment,
                   alias |-> None]
             ELSE [st |-> st, raised |-> "none",
                   value |-> deepcopy(
                       st.S.buffer[k - st.S.segments_nbr_in_chunk + 1],
                       NoAnnotations, TRUE),
                   alias |-> None]
        ELSE CHOOSE r \in
                 {from_page(got) :
                     got \in {get_chunk(st.c, "S", (k \div CHUNK_SIZE) + 1)}} :
                 TRUE

\* Segmentation.__setitem__(index, segment): [st, raised, alias]; the
\* buffer keeps the object it is given; np.array(..., dtype=np.int32)
\* raises TypeError for None; the arrays get_chunk returns are changed in
\* place
__setitem__(st, index, segment) ==
    LET i == IF index < 0 THEN st.S.segments_nbr + index ELSE index
        id == (i \div CHUNK_SIZE) + 1
        \* a[index % CHUNK_SIZE] = ...; set_chunk(self, id, a)
        address_set(got) ==
            [st EXCEPT !.c =
                set_chunk(got.c, "S", id,
                          [got.value EXCEPT ![(i % CHUNK_SIZE) + 1] =
                              <<segment.str_index, segment.start,
                                segment.end>>]).c]
        \* b[index % CHUNK_SIZE] = ...; set_chunk(self, id, b)
        annotation_set(tab, gotb) ==
            LET b == [gotb.value EXCEPT ![(i % CHUNK_SIZE) + 1] = tab.ids]
                changed == [gotb.c EXCEPT !.segments_cache =
                               DictSet(@, <<"S", -id>>, NdArray(b))]
            IN  [c |-> set_chunk(changed, "S", id, b).c, S |-> tab.S]
        annotated(created) ==
            CHOOSE r \in
                {annotation_set(tab, gotb) :
                    tab \in {get_annotation_tab(created.S, segment)},
                    gotb \in {get_chunk(created.c, "S", -id)}} : TRUE
        written(got) ==
            CHOOSE r \in
                {annotated(created) :
                    created \in {create_anotation(address_set(got))}} : TRUE
    IN  IF i >= st.S.segments_nbr_in_chunk
        THEN IF i - st.S.segments_nbr_in_chunk >= Len(st.S.buffer)
             THEN [st |-> st, raised |-> "IndexError", alias |-> None]
             ELSE [st |-> [st EXCEPT
                             !.S.buffer[i - st.S.segments_nbr_in_chunk + 1] =
                                 segment],
                   raised |-> "none", alias |-> i]
        ELSE IF segment.start = None \/ segment.end = None
        THEN [st |-> [st EXCEPT !.c = get_chunk(st.c, "S", id).c],
              raised |-> "TypeError", alias |-> None]
        ELSE CHOOSE r \in
                 {[st |-> written(got), raised |-> "none", alias |-> None] :
                     got \in {get_chunk(st.c, "S", id)}} : TRUE

----------------------------------------------------------------------------
(* Item access on a segmentation that append fills, the first CHUNK_SIZE   *)
(* segments being sealed in a page. In this section data holds the page    *)
(* cache, segB the segmentation object, prevData both as they were before  *)
(* the last operation, and result the object the last read returned.       *)

MaxPaged == CHUNK_SIZE + 1   \* largest number of segments

PagedDomain ==
    {Segment(0, 0, 1, {}), Segment(0, 1, 2, {<<"k", "v">>}),
     Segment(1, None, None, {})}

InitPaged ==
    /\ data = [segments_cache |-> <<>>, segments_access_time |-> <<>>]
    /\ segB = EmptyPaged
    /\ prevData = [c |-> data, S |-> segB]
    /\ segA = EmptySegmentation
    /\ op = "init"
    /\ args = <<>>
    /\ result = [value |-> NoSegment, alias |-> None]
    /\ raised = "none"

PagedAppend(segment) ==
    /\ segB.segments_nbr < MaxPaged
    /\ \E st \in {append_and_store([c |-> data, S |-> segB], segment)} :
           /\ data' = st.c
           /\ segB' = st.S
    /\ prevData' = [c |-> data, S |-> segB]
    /\ op' = "append"
    /\ args' = [segment |-> segment]
    /\ raised' = "none"
    /\ UNCHANGED <<segA, result>>

GetItem(key) ==
    /\ key < segB.segments_nbr
    /\ \E r \in {__getitem__([c |-> data, S |-> segB], key)} :
           /\ data' = r.st.c
           /\ segB' = r.st.S
           /\ result' = [value |-> r.value, alias |-> r.alias]
           /\ raised' = r.raised
    /\ prevData' = [c |-> data, S |-> segB]
    /\ op' = "__getitem__"
    /\ args' = [key |-> key]
    /\ UNCHANGED segA

SetItem(index, segment) ==
    /\ index < segB.segments_nbr
    /\ \E r \in {__setitem__([c |-> data, S |-> segB], index, segment)} :
           /\ data' = r.st.c
           /\ segB' = r.st.S
           /\ result' = [value |-> segment, alias |-> r.alias]
           /\ raised' = r.raised
    /\ prevData' = [c |-> data, S |-> segB]
    /\ op' = "__setitem__"
    /\ args' = [index |-> index, segment |-> segment]
    /\ UNCHANGED segA

\* the caller changes the segment a read has just returned, as
\* _auto_number does (segment.annotations[annotation_key] = counter), and
\* does not write it back
ChangeReturned ==
    LET changed == [result.value EXCEPT
                      !.annotations = AnnUpdate(@, {<<"n", "1">>})]
        position == result.alias - segB.segments_nbr_in_chunk + 1
    IN  /\ op = "__getitem__"
        /\ raised = "none"
        /\ result' = [result EXCEPT !.value = changed]
        /\ segB' = IF result.alias = None THEN segB
                   ELSE [segB EXCEPT !.buffer[position] = changed]
        /\ prevData' = [c |-> data, S |-> segB]
        /\ op' = "change"
        /\ UNCHANGED <<data, segA, args, raised>>

NextPaged ==
    \/ \E segment \in PagedDomain : PagedAppend(segment)
    \/ \E key \in 0..(MaxPaged - 1) : GetItem(key)
    \/ \E index \in 0..(MaxPaged - 1), segment \in PagedDomain :
           SetItem(index, segment)
    \/ ChangeReturned

SpecPaged == InitPaged /\ [][NextPaged]_vars

\* what a read of S[j] gives, S being the segmentation of st
Read(st, j) ==
    LET r == __getitem__(st, j)
    IN  [raised |-> r.raised, value |-> r.value]

Now == [c |-> data, S |-> segB]

(* C28: for any segmentation S, whether position i lies in the in-memory   *)
(* buffer or in a sealed page, after S[i] = x a read of S[i] returns a     *)
(* segment with x's str_index, start, end and annotations, len(S) is       *)
(* unchanged, and S[j] is unchanged for every j different from i; a        *)
(* segment returned by S[i] is a detached copy, so changing it without     *)
(* writing it back does not change S.                                      *)
C28_SetItemWritesOnePosition ==
    /\ op = "__setitem__" =>
           /\ raised = "none"
           /\ Read(Now, args.index) = [raised |-> "none",
                                       value |-> args.segment]
           /\ segB.segments_nbr = prevData.S.segments_nbr
           /\ \A j \in 0..(segB.segments_nbr - 1) :
                  j # args.index => Read(Now, j) = Read(prevData, j)
    /\ op = "change" =>
           \A j \in 0..(segB.segments_nbr - 1) :
               Read(Now, j) = Read(prevData, j)

\* the position written lies in the buffer
InBuffer == args.index >= prevData.S.segments_nbr_in_chunk

\* the effect of S[i] = x and of a change without write back when i lies
\* in the buffer
BufferItemAccess ==
    /\ (op = "__setitem__" /\ InBuffer) =>
           /\ raised = "none"
           /\ Read(Now, args.index) = [raised |-> "none",
                                       value |-> args.segment]
           /\ segB.segments_nbr = prevData.S.segments_nbr
           /\ \A j \in 0..(segB.segments_nbr - 1) :
                  j # args.index => Read(Now, j) = Read(prevData, j)
    /\ op = "change" =>
           \A j \in 0..(segB.segments_nbr - 1) :
               Read(Now, j) = Read(prevData, j)

----------------------------------------------------------------------------
(* The search of the subsample size (RMSP) in variety_in_context and       *)
(* variety_in_window, for one row cat_row of the category counts: the      *)
(* quotients are kept as fractions <<numerator, denominator>> with a       *)
(* positive denominator. In this section args holds cat_row,               *)
(* subsample_size and target_NLTTR, result the variables of the loop.      *)

\* get_expected_subsample_variety(cat_row, size) / size
NLTTR(cat_row, size) ==
    LET expected == get_expected_subsample_variety(cat_row, size).value
    IN  <<expected[1], expected[2] * size>>

\* x < y for two fractions
Less(x, y) == x[1] * y[2] < y[1] * x[2]

\* x - y < y - z for three fractions
Nearer(x, y, z) ==
    (x[1] * y[2] - y[1] * x[2]) * (y[2] * z[2])
        < (y[1] * z[2] - z[1] * y[2]) * (x[2] * y[2])

\* the bounds that move towards neither side
narrowed_never(size_low, size_high, size_tmp, NLTTR_tmp, target_NLTTR) ==
    <<size_low, size_high>>

\* the end of an iteration: size_high = size_tmp if NLTTR_tmp is below
\* the target, size_low = size_tmp if it is above
narrowed(size_low, size_high, size_tmp, NLTTR_tmp, target_NLTTR) ==
    IF Less(NLTTR_tmp, target_NLTTR) THEN <<size_low, size_tmp>>
    ELSE IF Less(target_NLTTR, NLTTR_tmp) THEN <<size_tmp, size_high>>
    ELSE <<size_low, size_high>>

MaxSubsample == 5     \* largest subsample_size

\* max(expected_varieties) / subsample_size for the rows of a table, and
\* values no row gives
Targets(subsample_size) ==
    {NLTTR(row, subsample_size) :
        row \in {d \in FreqDicts : sum_values(d) >= subsample_size}}
        \cup {<<0, 1>>, <<1, 2>>, <<1, 1>>}

InitBisection ==
    /\ data = <<>>
    /\ prevData = <<>>
    /\ segA = EmptySegmentation
    /\ segB = EmptySegmentation
    /\ op = "init"
    /\ \E subsample_size \in 2..MaxSubsample :
           \E targets \in {Targets(subsample_size)} :
               args \in {[cat_row |-> cat_row,
                          subsample_size |-> subsample_size,
                          target_NLTTR |-> target_NLTTR] :
                            cat_row \in FreqDicts, target_NLTTR \in targets}
    /\ result = <<>>
    /\ raised = "none"

\* "if subsample_size > sum(cat_row.values()): continue", else the
\* statements before the loop
EnterLoop ==
    /\ op = "init"
    /\ args.subsample_size <= sum_values(args.cat_row)
    /\ op' = "while"
    /\ \E NLTTR_tmp \in {NLTTR(args.cat_row, args.subsample_size)} :
           result' = [size_low |-> 2, size_high |-> args.subsample_size,
                      size_tmp |-> args.subsample_size,
                      NLTTR_tmp |-> NLTTR_tmp]
    /\ UNCHANGED <<data, prevData, segA, segB, args, raised>>

SkipRow ==
    /\ op = "init"
    /\ args.subsample_size > sum_values(args.cat_row)
    /\ op' = "continue"
    /\ UNCHANGED <<data, prevData, segA, segB, args, result, raised>>

OnTarget ==
    \/ (~Less(result.NLTTR_tmp, args.target_NLTTR)
           /\ ~Less(args.target_NLTTR, result.NLTTR_tmp))
    \/ result.size_low = result.size_high

\* "if NLTTR_tmp == target_NLTTR or size_low == size_high: break"
BreakOnTarget ==
    /\ op = "while"
    /\ OnTarget
    /\ op' = "break"
    /\ UNCHANGED <<data, prevData, segA, segB, args, result, raised>>

\* "if size_high - size_low == 1: ... break"
BreakOnNeighbours ==
    /\ op = "while"
    /\ ~OnTarget
    /\ result.size_high - result.size_low = 1
    /\ \E high \in {NLTTR(args.cat_row, result.size_high)},
          low \in {NLTTR(args.cat_row, result.size_low)} :
           result' = [result EXCEPT !.size_tmp =
                         IF Nearer(high, args.target_NLTTR, low)
                         THEN result.size_high ELSE result.size_low]
    /\ op' = "break"
    /\ UNCHANGED <<data, prevData, segA, segB, args, raised>>

\* the rest of an iteration; iround((size_low+size_high) / 2) takes a half
\* to the even integer where round() does (Python 3) and upwards where
\* round() takes it away from zero (Python 2)
Halve ==
    /\ op = "while"
    /\ ~OnTarget
    /\ result.size_high - result.size_low # 1
    /\ \E size_tmp \in {iround(result.size_low + result.size_high, 2),
                        (result.size_low + result.size_high + 1) \div 2} :
           \E NLTTR_tmp \in {NLTTR(args.cat_row, size_tmp)} :
               \E sizes \in {narrowed(result.size_low, result.size_high,
                                      size_tmp, NLTTR_tmp,
                                      args.target_NLTTR)} :
                   result' = [size_low |-> sizes[1], size_high |-> sizes[2],
                              size_tmp |-> size_tmp, NLTTR_tmp |-> NLTTR_tmp]
    /\ UNCHANGED <<data, prevData, segA, segB, op, args, raised>>

NextBisection ==
    \/ EnterLoop
    \/ SkipRow
    \/ BreakOnTarget
    \/ BreakOnNeighbours
    \/ Halve

\* the loop is sequential code: an iteration that can run does run
SpecBisection ==
    InitBisection /\ [][NextBisection]_vars /\ WF_vars(NextBisection)

(* C30: in variety_in_context and variety_in_window with                   *)
(* measure_per_category, resampling and adjust (RMSP), for every row       *)
(* holding at least subsample_size tokens with subsample_size >= 2, the    *)
(* bisection loop over (size_low, size_high) terminates whatever the       *)
(* values of the expected varieties, and the subsample size it selects     *)
(* lies in [2, subsample_size].                                            *)
C30_BisectionTerminatesInRange ==
    /\ (op = "while") ~> (op = "break")
    /\ [](op = "break" =>
              (2 <= result.size_tmp
                  /\ result.size_tmp <= args.subsample_size))

\* the loop has ended on a size strictly between 2 and subsample_size
C30_Witness ==
    /\ op = "break"
    /\ 2 < result.size_tmp
    /\ result.size_tmp < args.subsample_size

====
